---- MODULE Spec2Model ----
(***************************************************************************)
(* A model of the storyboard pipeline of video-automation:                 *)
(*   - brain/templates.py      generate_storyboard (template storyboards)  *)
(*   - brain/storyboard.py     Scene / Storyboard                          *)
(*   - brain/director.py       execute_storyboard and its phases           *)
(*   - composer/timeline.py    build_video_from_storyboard                 *)
(*   - composer/effects.py     TransitionEngine.apply_transition           *)
(* Each component has its own specification (SpecGen, SpecAudio, ...);     *)
(* the variables of the other components stay at their idle value.         *)
(***************************************************************************)
EXTENDS Integers, Sequences, FiniteSets, TLC

VARIABLES
    gen_pc,     \* generate_storyboard: "idle" | "call" | "returned" | "raised"
    gen_args,   \* its arguments: topic, duration, style, visual_mode, max_scenes
    gen_sb      \* the Storyboard it returns (NoStoryboard before / on raise)

VARIABLES
    aud_pc,     \* Director audio phase: "idle" | "start" | "done" | "subtitled"
    subtitle_input, \* what _build_subtitles handed to create_subtitles
    vo_audio,   \* the narration file build_video_from_storyboard opens ("" if none)
    aud_sb,     \* the Storyboard the audio phase works on
    full_text,  \* storyboard.get_full_narration() as handed to the synthesizer
    result      \* what narration synthesis returned

VARIABLES
    tl_pc,      \* build_video_from_storyboard: "idle" | "call" | "built" | "raised"
    tl_sb,      \* the Storyboard it is given
    tl_config,  \* the config it is given
    tl_out      \* what it has built: durations, clips, overlays, audio

VARIABLES
    tr_pc,      \* TransitionEngine.apply_transition: "idle" | "call" | "returned"
    tr_args,    \* its arguments: clip, transition_type, duration
    tr_out,     \* the clip it returns
    tr_raised   \* what raised inside the call: the custom transform, the moviepy effect

VARIABLES
    dir_pc,     \* Director.execute_storyboard: "idle" | "audio" | "images" |
                \* "videos" | "other" | "compose" | "done" | "raised"
    dir_scenes, \* storyboard.scenes: visual_type, visual_path, visual_clip
    img_outcome,\* what the AI image phase met for each scene
    unloaded,   \* whether the image generator's unload() has been called
    vid_outcome,\* what the AI video phase met for each scene
    video_generator, \* whether Wan2GPVideoGenerator(gen_config) has been created
    other_i,    \* _generate_other_visuals: how many scenes its loop has handled
    other_calls, \* what its loop did for each scene it came to, in order
    other_last, \* its latest pass: the branch, what the renderer and the stock generator did
    phase_log,  \* the phases that have run, in the order they started
    raised_in   \* the phase whose exception left execute_storyboard ("" if none)

VARIABLES
    st_pc,      \* a Storyboard in a caller's hands: "idle" | "ready"
    st_scenes,  \* storyboard.scenes: the Scene objects in list order (by identity)
    st_index    \* the scene_index attribute of every Scene object

genVars == <<gen_pc, gen_args, gen_sb>>
audVars == <<aud_pc, aud_sb, full_text, result, subtitle_input, vo_audio>>
tlVars == <<tl_pc, tl_sb, tl_config, tl_out>>
trVars == <<tr_pc, tr_args, tr_out, tr_raised>>
dirVars == <<dir_pc, dir_scenes, img_outcome, unloaded, vid_outcome, video_generator,
            other_i, other_calls, other_last, phase_log, raised_in>>

stVars == <<st_pc, st_scenes, st_index>>

VARIABLES
    bat_pc,       \* batch_generate.main: "idle" | "loop" | "done"
    bat_topics,   \* topics after topics[:args.count]
    bat_i,        \* passes of the for loop completed so far
    bat_spawned,  \* subprocess.run calls made so far
    results,      \* the results list
    bat_summary   \* the success / failed counts of the summary

batVars == <<bat_pc, bat_topics, bat_i, bat_spawned, results, bat_summary>>

VARIABLES
    cs_pc,      \* Director.create_storyboard: "idle" | "call" | "returned" | "raised"
    cs_in,      \* the Director's brain settings, the arguments, the Claude exchange
    cs_out      \* what create_storyboard returned

csVars == <<cs_pc, cs_in, cs_out>>

vars == <<genVars, audVars, tlVars, trVars, dirVars, stVars, batVars, csVars>>

notGen == <<audVars, tlVars, trVars, dirVars, stVars, batVars, csVars>>
notAud == <<genVars, tlVars, trVars, dirVars, stVars, batVars, csVars>>
notTl == <<genVars, audVars, trVars, dirVars, stVars, batVars, csVars>>
notTr == <<genVars, audVars, tlVars, dirVars, stVars, batVars, csVars>>
notDir == <<genVars, audVars, tlVars, trVars, stVars, batVars, csVars>>
notSt == <<genVars, audVars, tlVars, trVars, dirVars, batVars, csVars>>
notBat == <<genVars, audVars, tlVars, trVars, dirVars, stVars, csVars>>
notCs == <<genVars, audVars, tlVars, trVars, dirVars, stVars, batVars>>

(***************************************************************************)
(* Small helpers.                                                          *)
(***************************************************************************)
Min(a, b) == IF a <= b THEN a ELSE b
Max(a, b) == IF a >= b THEN a ELSE b

\* Python's seq[:n]
Take(s, n) == SubSeq(s, 1, Min(n, Len(s)))

RECURSIVE Flatten(_)
\* concatenation of a sequence of sequences
Flatten(ss) == IF ss = <<>> THEN <<>> ELSE Head(ss) \o Flatten(Tail(ss))

RECURSIVE SeqsUpTo(_, _)
\* all sequences over S of length <= n
SeqsUpTo(S, n) ==
    IF n = 0 THEN {<<>>}
    ELSE LET shorter == SeqsUpTo(S, n - 1)
         IN  shorter \cup {Append(s, x) : s \in shorter, x \in S}

\* elements of a sequence
Range(s) == {s[i] : i \in 1..Len(s)}

RECURSIVE OrderedSamples(_, _)
\* all duplicate-free sequences of k elements of S: the outcomes of
\* random.sample(S, k)
OrderedSamples(S, k) ==
    IF k = 0 THEN {<<>>}
    ELSE UNION {{Append(s, x) : x \in S \ Range(s)} : s \in OrderedSamples(S, k - 1)}

(***************************************************************************)
(* Strings.  A string is a sequence of characters; a multi-letter atom     *)
(* such as "Sleep" stands for an indivisible run of letters.               *)
(***************************************************************************)
\* str.lower() on one character
LowerChar(c) == IF c = "Sleep" THEN "sleep" ELSE c

\* str.lower()
Lower(s) == [i \in 1..Len(s) |-> LowerChar(s[i])]

\* str.replace(",", "")
RemoveCommas(s) == SelectSeq(s, LAMBDA c : c # ",")

RECURSIVE SplitAcc(_, _, _)
SplitAcc(s, cur, acc) ==
    IF s = <<>> THEN (IF cur = <<>> THEN acc ELSE Append(acc, cur))
    ELSE IF Head(s) = " "
         THEN SplitAcc(Tail(s), <<>>, IF cur = <<>> THEN acc ELSE Append(acc, cur))
         ELSE SplitAcc(Tail(s), Append(cur, Head(s)), acc)

\* str.split(): the maximal runs of non-space characters, in order
Split(s) == SplitAcc(s, <<>>, <<>>)

RECURSIVE JoinWith(_, _)
\* sep.join(parts)
JoinWith(sep, parts) ==
    IF parts = <<>> THEN <<>>
    ELSE IF Len(parts) = 1 THEN parts[1]
    ELSE parts[1] \o sep \o JoinWith(sep, Tail(parts))

(***************************************************************************)
(* brain/templates.py: generate_storyboard                                 *)
(***************************************************************************)
\* ---- bounds of the inputs
MaxTopicWords == 4      \* words in a topic
MaxMaxScenes == 5       \* largest max_scenes tried (the code caps at 4)
MaxDefaultFacts == 5    \* how many of TOPIC_FACTS["default"] the model keeps

\* ---- program constants
DefaultMaxScenes == 6   \* generate_storyboard(max_scenes=6)
TopicFactCount == 3     \* entries of TOPIC_FACTS["sleep"]
HookReserve == 6        \* the 6 of (duration - 6)
MinSegmentDuration == 5 \* the 5 of max(5, ...)

RawWords == {<<"Sleep">>, <<"reading", ",">>, <<",">>}
Topics == {JoinWith(<<" ">>, ws) : ws \in SeqsUpTo(RawWords, MaxTopicWords)}
ShortTopics == {<<>>, <<"Sleep">>, <<"reading", ",">>}
Durations == {5, 20, 21, 40, 41, 60}
Styles == {"education", "vlog"}
VisualModes == {"stock", "ai_image", "ai_video", "mixed", "other"}

NoStoryboard == [scenes |-> <<>>, hashtags |-> <<>>, none |-> TRUE]

\* VisualType
STOCK_FOOTAGE == "stock_footage"
AI_GENERATED_VIDEO == "ai_generated_video"
AI_GENERATED_IMAGE == "ai_generated_image"
INFOGRAPHIC == "infographic"
TEXT_ANIMATION == "text_animation"
MOTION_GRAPHIC == "motion_graphic"
CONVERSATION == "conversation"
COLOR_BACKGROUND == "color_background"

VisualType == {STOCK_FOOTAGE, AI_GENERATED_VIDEO, AI_GENERATED_IMAGE, INFOGRAPHIC,
               TEXT_ANIMATION, MOTION_GRAPHIC, CONVERSATION, COLOR_BACKGROUND}

\* VISUAL_TYPE_MAP.get(v, VisualType.STOCK_FOOTAGE)
VISUAL_TYPE_MAP(v) ==
    CASE v = "stock_footage"    -> STOCK_FOOTAGE
      [] v = "ai_image"         -> AI_GENERATED_IMAGE
      [] v = "ai_video"         -> AI_GENERATED_VIDEO
      [] v = "infographic"      -> INFOGRAPHIC
      [] v = "text_animation"   -> TEXT_ANIMATION
      [] v = "motion_graphic"   -> MOTION_GRAPHIC
      [] v = "color_background" -> COLOR_BACKGROUND
      [] OTHER                  -> STOCK_FOOTAGE

\* templates/storyboard_patterns.json as generate_storyboard may find it: no
\* file or no pattern for the style (<<>>), or the style's visual_sequence
PatternFiles == {<<>>, <<"ai_image", "bogus">>, <<"infographic">>}

\* the transitions list of generate_storyboard
GenTransitions == <<"crossfade", "cut", "fade_black", "crossfade", "zoom_in", "slide_left">>

\* the default "mixed" rotation
MixedDefault == <<STOCK_FOOTAGE, TEXT_ANIMATION, STOCK_FOOTAGE,
                  MOTION_GRAPHIC, INFOGRAPHIC, STOCK_FOOTAGE>>

\* _get_visual_sequence(visual_mode, count, style) with the pattern file's
\* sequence for the style (<<>> when there is none)
GetVisualSequence(visual_mode, count, pattern) ==
    CASE visual_mode = "stock"    -> [i \in 1..count |-> STOCK_FOOTAGE]
      [] visual_mode = "ai_image" -> [i \in 1..count |-> AI_GENERATED_IMAGE]
      [] visual_mode = "ai_video" -> [i \in 1..count |-> AI_GENERATED_VIDEO]
      [] visual_mode = "mixed"    ->
            IF pattern # <<>>
            THEN LET seq == Take(pattern, count)
                 IN  [i \in 1..Len(seq) |-> VISUAL_TYPE_MAP(seq[i])]
            ELSE Take(MixedDefault, count)
      [] OTHER                    -> [i \in 1..count |-> STOCK_FOOTAGE]

\* the duration buckets: number of segments
NumSegments(duration, max_scenes) ==
    IF duration <= 20 THEN 2
    ELSE IF duration <= 40 THEN 3
    ELSE Min(4, max_scenes)

\* a segment duration rounded up instead of down
SegmentDurationCeil(duration, num_segments) ==
    Max(MinSegmentDuration,
        (duration - HookReserve + num_segments - 1) \div num_segments)

\* segment_duration = max(5, (duration - 6) // num_segments)
SegmentDuration(duration, num_segments) ==
    Max(MinSegmentDuration, (duration - HookReserve) \div num_segments)

\* TOPIC_FACTS: a fact is named by its pool and its position in the pool
TopicKeys == <<"sleep", "wellness", "cbd">>
FactPool(key) ==
    IF key = "default" THEN {[pool |-> "default", n |-> i] : i \in 1..MaxDefaultFacts}
    ELSE {[pool |-> key, n |-> i] : i \in 1..TopicFactCount}

\* the first key of TOPIC_FACTS (other than "default") contained in the
\* lowercased topic, or "default"
MatchedKey(topic) ==
    LET topic_lower == Lower(topic)
        hits == {k \in 1..Len(TopicKeys) : TopicKeys[k] \in Range(topic_lower)}
    IN  IF hits = {} THEN "default"
        ELSE TopicKeys[CHOOSE k \in hits : \A j \in hits : k <= j]

\* every list get_facts_for_topic(topic, count) can return: a random sample
\* of the matched pool, filled up with default facts not yet selected
GetFactsForTopic(topic, count) ==
    LET matched == FactPool(MatchedKey(topic))
        k == Min(count, Cardinality(matched))
    IN  UNION {{sel \o extra :
                  extra \in OrderedSamples(FactPool("default") \ Range(sel), count - k)}
               : sel \in OrderedSamples(matched, k)}

\* Hashtags without topic.lower()
HashtagsNoLower(topic, style) ==
    LET topic_words == Split(RemoveCommas(topic))
        first == Take(topic_words, 3)
    IN  [i \in 1..Len(first) |-> <<"#">> \o first[i]]
        \o << <<"#", "shorts">>, <<"#", "viral">>, <<"#", style>> >>

\* the hashtags list
Hashtags(topic, style) ==
    LET topic_words == Split(RemoveCommas(Lower(topic)))
        first == Take(topic_words, 3)
    IN  [i \in 1..Len(first) |-> <<"#">> \o first[i]]
        \o << <<"#", "shorts">>, <<"#", "viral">>, <<"#", style>> >>

\* Storyboard.add_scene
AddScene(storyboard, scene) ==
    [storyboard EXCEPT
        !.scenes = Append(@, [scene EXCEPT !.scene_index = Len(storyboard.scenes)])]

RECURSIVE AddFactScenes(_, _, _, _, _)
\* the loop "for i, (fact_text, explanation, visual_query) in enumerate(facts)"
\* from position i (0-based) on
AddFactScenes(storyboard, facts, i, visual_types, segment_duration) ==
    IF i >= Len(facts) THEN storyboard
    ELSE LET scene == [fact          |-> facts[i + 1],
                       duration      |-> segment_duration,
                       visual_type   |-> visual_types[(i % Len(visual_types)) + 1],
                       transition_in |-> GenTransitions[(i % Len(GenTransitions)) + 1],
                       scene_index   |-> 0]
         IN  AddFactScenes(AddScene(storyboard, scene), facts, i + 1,
                           visual_types, segment_duration)

\* the storyboards generate_storyboard can return for args (the facts are a
\* random sample); none when (duration - 6) // num_segments divides by zero
TemplateStoryboards(args) ==
    LET num_segments == NumSegments(args.duration, args.max_scenes)
    IN  IF num_segments = 0 THEN {}
        ELSE {AddFactScenes([scenes          |-> <<>>,
                             hashtags        |-> Hashtags(args.topic, args.style),
                             target_duration |-> args.duration,
                             style           |-> args.style,
                             none            |-> FALSE],
                            facts, 0,
                            GetVisualSequence(args.visual_mode, num_segments, pattern),
                            SegmentDuration(args.duration, num_segments)) :
                 facts \in GetFactsForTopic(args.topic, num_segments),
                 pattern \in (IF args.visual_mode = "mixed" THEN PatternFiles ELSE {<<>>})}

\* generate_storyboard returns
GenerateStoryboard ==
    /\ gen_pc = "call"
    /\ NumSegments(gen_args.duration, gen_args.max_scenes) > 0
    /\ gen_sb' \in TemplateStoryboards(gen_args)
    /\ gen_pc' = "returned"
    /\ UNCHANGED <<gen_args, notGen>>

\* generate_storyboard raises: with no segment, (duration - 6) // num_segments
\* is a ZeroDivisionError
GenerateStoryboardRaises ==
    /\ gen_pc = "call"
    /\ NumSegments(gen_args.duration, gen_args.max_scenes) = 0
    /\ gen_pc' = "raised"
    /\ UNCHANGED <<gen_args, gen_sb, notGen>>

GenArgs(topics, durations, max_scenes) ==
    [topic : topics, duration : durations, style : Styles,
     visual_mode : VisualModes, max_scenes : max_scenes]

GenInit ==
    /\ gen_pc = "call"
    /\ gen_args \in GenArgs(ShortTopics, Durations, 0..MaxMaxScenes)
                    \cup GenArgs(Topics, {20}, {DefaultMaxScenes})
    /\ gen_sb = NoStoryboard

GenIdle ==
    /\ gen_pc = "idle"
    /\ gen_args = [topic |-> <<>>, duration |-> 0, style |-> "education",
                   visual_mode |-> "stock", max_scenes |-> 0]
    /\ gen_sb = NoStoryboard

GenNext == GenerateStoryboard \/ GenerateStoryboardRaises


(***************************************************************************)
(* brain/storyboard.py get_full_narration and brain/director.py audio      *)
(* phase (_generate_audio, _distribute_timestamps).                        *)
(***************************************************************************)
\* ---- bounds of the inputs
MaxAudScenes == 2       \* scenes of a storyboard in the audio phase
MaxTimestamps == 5      \* word timestamps narration synthesis may return

\* hook, cta and scene texts: empty, blank, one word, two words, a word after
\* a leading space
Texts == {<<>>, <<" ">>, <<"a">>, <<"a", " ", "b">>, <<" ", "a">>}

\* result["duration"] values: an empty file, a narration of 12 s
AudioDurations == {0, 12}

\* the separator of " ".join(parts)
NoSeparator == <<>>
NarrationSeparator == <<" ">>

\* Storyboard.get_full_narration
GetFullNarration(storyboard) ==
    LET texts == [i \in 1..Len(storyboard.scenes) |-> storyboard.scenes[i].text]
        parts == (IF storyboard.hook # <<>> THEN <<storyboard.hook>> ELSE <<>>)
                 \o SelectSeq(texts, LAMBDA t : t # <<>>)
                 \o (IF storyboard.cta # <<>> THEN <<storyboard.cta>> ELSE <<>>)
    IN  JoinWith(NarrationSeparator, parts)

\* Python's seq[a:b] for 0 <= a, 0 <= b
Slice(s, a, b) ==
    IF a >= Min(b, Len(s)) THEN <<>> ELSE SubSeq(s, a + 1, Min(b, Len(s)))

\* word_idx = 0: the hook words are not skipped
NoHookSkip(storyboard) == 0

\* hook_words, the initial word_idx
HookWords(storyboard) ==
    IF storyboard.hook # <<>> THEN Len(Split(storyboard.hook)) ELSE 0

\* end_idx one short
EndIdxShort(word_idx, count, n) == Min(word_idx + count - 1, n)

\* end_idx = min(word_idx + count, len(word_timestamps))
EndIdx(word_idx, count, n) == Min(word_idx + count, n)

RECURSIVE DistributeFrom(_, _, _, _)
\* the loop of _distribute_timestamps from scene i (1-based) on
DistributeFrom(scenes, i, word_idx, word_timestamps) ==
    IF i > Len(scenes) THEN scenes
    ELSE LET count == Len(Split(scenes[i].text))
             end_idx == EndIdx(word_idx, count, Len(word_timestamps))
             updated == [scenes EXCEPT
                            ![i].word_timestamps = Slice(word_timestamps, word_idx, end_idx)]
         IN  DistributeFrom(updated, i + 1, end_idx, word_timestamps)

\* Director._distribute_timestamps
DistributeTimestamps(storyboard, word_timestamps) ==
    IF word_timestamps = <<>> \/ storyboard.scenes = <<>> THEN storyboard
    ELSE [storyboard EXCEPT
            !.scenes = DistributeFrom(@, 1, HookWords(storyboard), word_timestamps)]

\* the narration path and duration stored on every scene
StoreOnEveryScene(storyboard, res) ==
    [storyboard EXCEPT !.scenes = [i \in 1..Len(@) |->
        [@[i] EXCEPT !.audio_path = res.audio_path, !.audio_duration = res.duration]]]

\* "Store full audio path on first scene"
StoreOnFirstScene(storyboard, res) ==
    IF storyboard.scenes # <<>>
    THEN [storyboard EXCEPT !.scenes[1].audio_path = res.audio_path,
                            !.scenes[1].audio_duration = res.duration]
    ELSE storyboard

\* what narration synthesis can return for a text: a file, its duration and
\* any number of word timestamps (entry k is the k-th word boundary)
SynthesisResults ==
    [audio_path : {"narration.mp3"}, duration : AudioDurations,
     word_timestamps : {[k \in 1..n |-> k] : n \in 0..MaxTimestamps}]

\* what VoiceCloner.clone_and_speak can return: the cloned file
CloneResults ==
    [audio_path : {"clone.wav"}, duration : AudioDurations,
     word_timestamps : {[k \in 1..n |-> k] : n \in 0..MaxTimestamps}]

\* voice_clone: "off" (not enabled or no reference audio), "cloned"
\* (_generate_audio_cloned returns) or "failed" (it raises: Edge TTS instead)
VoiceCloneOutcomes == {"off", "cloned", "failed"}

NoResult == [audio_path |-> "", duration |-> 0, word_timestamps |-> <<>>]

\* Director._generate_audio: _generate_audio_cloned when voice cloning is on
\* and works, _generate_audio_tts otherwise (the same stores in the same order)
GenerateAudio ==
    /\ aud_pc = "start"
    /\ full_text' = GetFullNarration(aud_sb)
    /\ \E voice_clone \in VoiceCloneOutcomes :
       \E res \in (IF voice_clone = "cloned" THEN CloneResults ELSE SynthesisResults) :
          /\ result' = res
          /\ aud_sb' = StoreOnFirstScene(
                          DistributeTimestamps(
                              [aud_sb EXCEPT !.total_audio_duration = res.duration],
                              res.word_timestamps),
                          res)
    /\ aud_pc' = "done"
    /\ UNCHANGED <<subtitle_input, vo_audio, notAud>>

\* the audio_path of build_video_from_storyboard ("" for None)
AudioPath(storyboard) ==
    LET with_audio == {i \in 1..Len(storyboard.scenes) : storyboard.scenes[i].audio_path # ""}
    IN  IF with_audio = {} THEN ""
        ELSE storyboard.scenes[CHOOSE i \in with_audio : \A j \in with_audio : i <= j].audio_path

\* all_timestamps of _build_subtitles: the scenes' word_timestamps, extended
\* one scene after the other
AllTimestamps(storyboard) ==
    Flatten([i \in 1..Len(storyboard.scenes) |-> storyboard.scenes[i].word_timestamps])

NoSubtitleInput == [enabled |-> FALSE, called |-> FALSE, word_timestamps |-> <<>>]

\* build_video_from_storyboard on the storyboard the audio phase filled: it
\* opens the audio_path it finds on a scene, and _build_subtitles calls
\* create_subtitles with all_timestamps unless subtitles are off or the list
\* is empty
BuildSubtitlesCall ==
    /\ aud_pc = "done"
    /\ \E enabled \in BOOLEAN :
          LET all_timestamps == AllTimestamps(aud_sb)
          IN  subtitle_input' =
                  IF enabled /\ all_timestamps # <<>>
                  THEN [enabled |-> enabled, called |-> TRUE,
                        word_timestamps |-> all_timestamps]
                  ELSE [enabled |-> enabled, called |-> FALSE, word_timestamps |-> <<>>]
    /\ vo_audio' = AudioPath(aud_sb)
    /\ aud_pc' = "subtitled"
    /\ UNCHANGED <<aud_sb, full_text, result, notAud>>

\* Scene(text=...) as constructed: nothing filled in yet
NewAudScene(text) ==
    [text |-> text, word_timestamps |-> <<>>, audio_path |-> "", audio_duration |-> 0]

AudStoryboards ==
    {[hook |-> h, cta |-> c, total_audio_duration |-> 0,
      scenes |-> [i \in 1..Len(ts) |-> NewAudScene(ts[i])]]
        : h \in Texts, c \in Texts, ts \in SeqsUpTo(Texts, MaxAudScenes)}

AudInit ==
    /\ aud_pc = "start"
    /\ aud_sb \in AudStoryboards
    /\ full_text = <<>>
    /\ result = NoResult
    /\ subtitle_input = NoSubtitleInput
    /\ vo_audio = ""

AudIdle ==
    /\ aud_pc = "idle"
    /\ aud_sb = [hook |-> <<>>, cta |-> <<>>, total_audio_duration |-> 0, scenes |-> <<>>]
    /\ full_text = <<>>
    /\ result = NoResult
    /\ subtitle_input = NoSubtitleInput
    /\ vo_audio = ""

AudNext == GenerateAudio \/ BuildSubtitlesCall


(***************************************************************************)
(* composer/effects.py: TransitionEngine.apply_transition.                 *)
(* A clip is its source and the effects applied to it so far; durations    *)
(* are in half seconds (the default transition_duration 0.5 is 1).         *)
(***************************************************************************)
\* TransitionType
TransitionType == {"cut", "crossfade", "fade_black", "slide_left", "slide_right",
                   "zoom_in", "zoom_out"}

TransitionDurations == {-1, 0, 1, 2}

Clips == {[source |-> src, effects |-> fx] :
              src \in {"filler", "video"}, fx \in {<<>>, <<[effect |-> "resized", duration |-> 0]>>}}

\* clip.with_effects([effect(duration)]) / clip.transform(filter)
WithEffect(clip, effect, duration) ==
    [clip EXCEPT !.effects = Append(@, [effect |-> effect, duration |-> duration])]

\* the guard lets a zero duration through
NoTransitionNegativeOnly(duration) == duration < 0

\* if duration <= 0: return clip
NoTransition(duration) == duration <= 0

\* a custom transform that gives the clip back as it is when it raises
ApplyCustomNoFallback(clip, effect, duration, custom_raises) ==
    IF custom_raises THEN clip ELSE WithEffect(clip, effect, duration)

\* _apply_slide / _apply_zoom_in / _apply_zoom_out: the custom transform, or a
\* plain CrossFadeIn when setting it up raises
ApplyCustom(clip, effect, duration, custom_raises) ==
    IF custom_raises THEN WithEffect(clip, "CrossFadeIn", duration)
    ELSE WithEffect(clip, effect, duration)

\* apply_transition(clip, transition_type, duration); effect_raises: the
\* moviepy effect (with_effects) raises; custom_raises: the custom transform
\* raises when it is set up
ApplyTransitionTo(clip, transition_type, duration, effect_raises, custom_raises) ==
    IF NoTransition(duration) THEN clip
    ELSE CASE transition_type = "crossfade" ->
                 IF effect_raises THEN clip ELSE WithEffect(clip, "CrossFadeIn", duration)
           [] transition_type = "fade_black" ->
                 IF effect_raises THEN clip ELSE WithEffect(clip, "FadeIn", duration)
           [] transition_type = "cut" -> clip
           [] transition_type \in {"slide_left", "slide_right", "zoom_in", "zoom_out"} ->
                 IF custom_raises /\ effect_raises THEN clip
                 ELSE ApplyCustom(clip, transition_type, duration, custom_raises)
           [] OTHER ->
                 IF effect_raises THEN clip ELSE WithEffect(clip, "CrossFadeIn", duration)

(***************************************************************************)
(* composer/timeline.py: build_video_from_storyboard.                      *)
(* Times of one build are kept in ticks of 1/num_scenes second (1 second   *)
(* when there is no scene), so that content_time / num_scenes is exact.    *)
(***************************************************************************)
\* ---- bounds of the inputs
MaxTlScenes == 2        \* scenes of a storyboard handed to the compositor

\* ---- program constants
HookTime == 3           \* hook_time = 3.0, elapsed = 3.0
CtaTime == 3            \* cta_time = 3.0
MinPerScene == 3        \* the 3.0 of max(3.0, ...)
MinRenderDuration == 2  \* renderers: duration = max(2.0, scene.duration)

TlTargetDurations == {5, 30}        \* storyboard.target_duration
TlTotalAudioDurations == {0, 4}     \* storyboard.total_audio_duration
TlSceneAudioDurations == {0, 4, 20} \* scene.audio_duration (0: None)
SubtitleClipCounts == {0, 2}        \* clips create_subtitles returns
CtaDuration == 3                    \* brand.cta.duration, seconds

NoClip == [none |-> TRUE, duration |-> 0]
\* scene.visual_clip as a renderer leaves it: a clip of at least 2 seconds
VisualClips == {[none |-> FALSE, duration |-> d] : d \in {MinRenderDuration, 30}}

\* scene.visual_path: "" stands for None
VisualPaths == {"a.png", "short.mp4", "long.mp4", "a.gif", "broken.mp4"}
IsImagePath(path) == path \in {"a.png"}
IsVideoPath(path) == path \in {"short.mp4", "long.mp4", "broken.mp4"}
\* VideoFileClip(path).duration in seconds; 0 stands for a file that fails to load
VideoFileDuration(path) ==
    CASE path = "short.mp4" -> 1
      [] path = "long.mp4"  -> 60
      [] OTHER              -> 0

\* ticks per second of a build
Ticks(num_scenes) == IF num_scenes = 0 THEN 1 ELSE num_scenes

\* per_scene without the 3.0 floor
PerSceneNoFloor(total, cta, num_scenes) ==
    total - HookTime - (IF cta # <<>> THEN CtaTime ELSE 0)

\* per_scene = max(3.0, content_time / num_scenes), in ticks
PerScene(total, cta, num_scenes) ==
    LET hook_time == HookTime
        cta_time == IF cta # <<>> THEN CtaTime ELSE 0
        content_time == total - hook_time - cta_time
    IN  Max(MinPerScene * num_scenes, content_time)

\* a total duration that keeps the declared target whatever the narration lasts
TotalDurationKeepsTarget(storyboard) == storyboard.target_duration

\* the total_duration of build_video_from_storyboard, in seconds
TotalDuration(storyboard) ==
    LET with_audio == {i \in 1..Len(storyboard.scenes) : storyboard.scenes[i].audio_path # ""}
        first == CHOOSE i \in with_audio : \A j \in with_audio : i <= j
        total_duration ==
            IF with_audio # {} /\ storyboard.scenes[first].audio_duration # 0
            THEN storyboard.scenes[first].audio_duration
            ELSE storyboard.total_audio_duration
    IN  IF total_duration <= 0 THEN storyboard.target_duration ELSE total_duration

\* total = storyboard.total_audio_duration or storyboard.target_duration
OverlayTotal(storyboard) ==
    IF storyboard.total_audio_duration # 0 THEN storyboard.total_audio_duration
    ELSE storyboard.target_duration

\* the clip built for one scene of slot length dur (ticks): its kind and duration
SceneClip(scene, dur, num_scenes) ==
    IF ~scene.visual_clip.none
    THEN \* subclipped(0, dur) when longer, with_duration(dur) when shorter
         [kind |-> "animated",
          duration |-> IF scene.visual_clip.duration # 0
                          /\ scene.visual_clip.duration * num_scenes # dur
                       THEN dur
                       ELSE scene.visual_clip.duration * num_scenes]
    ELSE IF scene.visual_path # ""
    THEN IF IsImagePath(scene.visual_path)
         THEN [kind |-> "image", duration |-> dur]
         ELSE IF IsVideoPath(scene.visual_path)
         THEN IF VideoFileDuration(scene.visual_path) = 0
              THEN [kind |-> "filler", duration |-> dur]       \* except: ColorClip
              ELSE [kind |-> "video", duration |-> dur]        \* trimmed or looped
         ELSE [kind |-> "filler", duration |-> dur]
    ELSE [kind |-> "filler", duration |-> dur]

\* what can raise while the transition of one scene is applied: nothing when
\* there is no transition to apply, the moviepy effect for crossfade and
\* fade_black, the custom transform and then the crossfade for the others
NothingRaised == [custom |-> FALSE, effect |-> FALSE]
SceneTransitionEnvs(scene) ==
    IF NoTransition(scene.transition_duration) \/ scene.transition_in = "cut"
    THEN {NothingRaised}
    ELSE IF scene.transition_in \in {"slide_left", "slide_right", "zoom_in", "zoom_out"}
    THEN {NothingRaised, [custom |-> TRUE, effect |-> FALSE],
          [custom |-> TRUE, effect |-> TRUE]}
    ELSE {NothingRaised, [custom |-> FALSE, effect |-> TRUE]}

RECURSIVE TransitionEnvsFrom(_, _)
TransitionEnvsFrom(scenes, i) ==
    IF i > Len(scenes) THEN {<<>>}
    ELSE {<<env>> \o rest : env \in SceneTransitionEnvs(scenes[i]),
                            rest \in TransitionEnvsFrom(scenes, i + 1)}

\* one outcome per scene, in scene order
TransitionEnvs(storyboard) == TransitionEnvsFrom(storyboard.scenes, 1)

\* an elapsed time that stays where it is
ElapsedStays(elapsed, dur) == elapsed

\* elapsed += dur
NextElapsed(elapsed, dur) == elapsed + dur

RECURSIVE SceneClipsFrom(_, _, _, _, _, _)
\* the loop "for i, scene in enumerate(storyboard.scenes)" of _build_scene_clips
\* from scene i (1-based) on: the clip is built, started at elapsed, given its
\* transition and appended
SceneClipsFrom(storyboard, i, elapsed, per_scene, raised, clips) ==
    IF i > Len(storyboard.scenes) THEN clips
    ELSE LET scene == storyboard.scenes[i]
             dur == per_scene
             clip == SceneClip(scene, dur, Len(storyboard.scenes))
             started == [kind |-> clip.kind, scene |-> i - 1, start |-> elapsed,
                         duration |-> clip.duration, effects |-> <<>>]
             with_transition ==
                 ApplyTransitionTo(started, scene.transition_in, scene.transition_duration,
                                   raised[i].effect, raised[i].custom)
         IN  SceneClipsFrom(storyboard, i + 1, NextElapsed(elapsed, dur), per_scene,
                            raised, Append(clips, with_transition))

\* _build_scene_clips
BuildSceneClips(storyboard, total_duration, raised) ==
    LET num_scenes == Len(storyboard.scenes)
        per_scene == PerScene(total_duration, storyboard.cta, num_scenes)
        bg == [kind |-> "background", scene |-> -1, start |-> 0,
               duration |-> total_duration * Ticks(num_scenes), effects |-> <<>>]
    IN  IF num_scenes = 0 THEN <<bg>>
        ELSE <<bg>> \o SceneClipsFrom(storyboard, 1, HookTime * num_scenes, per_scene,
                                      raised, <<>>)

\* _build_text_overlays; create_text_overlay fails for the scenes in failed
BuildTextOverlays(storyboard, failed) ==
    LET num_scenes == Len(storyboard.scenes)
        total == OverlayTotal(storyboard)
        per_scene == PerScene(total, storyboard.cta, num_scenes)
        slots == [i \in 1..num_scenes |->
                     [kind |-> "overlay", scene |-> i - 1,
                      start |-> HookTime * num_scenes + (i - 1) * per_scene,
                      duration |-> per_scene]]
    IN  SelectSeq(slots, LAMBDA o : /\ storyboard.scenes[o.scene + 1].text_overlay # <<>>
                                    /\ (o.scene + 1) \notin failed)

\* music.enabled = False does not stop the music
BuildMusicIgnoresEnabled(config, music_env) ==
    IF music_env = "loads" THEN <<"music">> ELSE <<>>

\* _build_music: music_env is what assets/music holds: "none" (no directory or
\* no music file), "loads" or "fails" (AudioFileClip raises)
BuildMusic(config, music_env) ==
    IF ~config.music_enabled THEN <<>>
    ELSE IF music_env = "loads" THEN <<"music">> ELSE <<>>

\* "Mix audio": the final_audio of the build
FinalAudio(audio_tracks) ==
    IF Len(audio_tracks) > 1 THEN "CompositeAudioClip"
    ELSE IF Len(audio_tracks) = 1 THEN audio_tracks[1]
    ELSE "None"

\* _build_subtitles: no clip when subtitles are off; otherwise the clips that
\* create_subtitles makes of the word timestamps (none without timestamps)
BuildSubtitles(config, num_clips) ==
    IF ~config.subtitles_enabled THEN <<>>
    ELSE [k \in 1..num_clips |->
             [kind |-> "subtitle", scene |-> -1, start |-> k - 1, duration |-> 1]]

\* _build_logo: add_logo over the whole video when brand.logo is set; None
\* (no layer) when it is not set or the file cannot be loaded
BuildLogo(config, total_duration, num_scenes, logo_loads) ==
    IF config.logo # "" /\ logo_loads
    THEN <<[kind |-> "logo", scene |-> -1, start |-> 0,
            duration |-> total_duration * Ticks(num_scenes)]>>
    ELSE <<>>

\* _build_cta: the call to action over the last cta_dur seconds when
\* brand.cta.enabled and the storyboard has a cta; None when create_cta_clip fails
BuildCta(storyboard, config, total_duration, num_scenes, cta_renders) ==
    IF config.cta_enabled /\ storyboard.cta # <<>> /\ cta_renders
    THEN <<[kind |-> "cta", scene |-> -1,
            start |-> (total_duration - CtaDuration) * Ticks(num_scenes),
            duration |-> CtaDuration * Ticks(num_scenes)]>>
    ELSE <<>>

\* a layer list with the text overlays under the subtitles
LayersOverlaysFirst(scene_clips, subtitle_clips, text_overlays, logo_clip, cta_clip) ==
    scene_clips \o text_overlays \o subtitle_clips \o logo_clip \o cta_clip

\* "Compose all layers": the list given to CompositeVideoClip
Layers(scene_clips, subtitle_clips, text_overlays, logo_clip, cta_clip) ==
    scene_clips \o subtitle_clips \o text_overlays \o logo_clip \o cta_clip

NoBuild == [built |-> FALSE]

\* build_video_from_storyboard returns
BuildVideo ==
    /\ tl_pc = "call"
    /\ \E music_env \in {"none", "loads", "fails"},
          failed \in SUBSET {i \in 1..Len(tl_sb.scenes) : tl_sb.scenes[i].text_overlay # <<>>},
          num_subtitles \in (IF tl_config.subtitles_enabled THEN SubtitleClipCounts ELSE {0}),
          logo_loads \in (IF tl_config.logo # "" THEN BOOLEAN ELSE {FALSE}),
          cta_renders \in (IF tl_config.cta_enabled /\ tl_sb.cta # <<>> THEN BOOLEAN
                           ELSE {FALSE}),
          raised \in TransitionEnvs(tl_sb) :
          LET total_duration == TotalDuration(tl_sb)
              audio_path == AudioPath(tl_sb)
              num_scenes == Len(tl_sb.scenes)
              music_clips == BuildMusic(tl_config, music_env)
              audio_tracks == (IF audio_path # "" THEN <<"narration">> ELSE <<>>)
                              \o music_clips
              scene_clips == BuildSceneClips(tl_sb, total_duration, raised)
              text_overlays == BuildTextOverlays(tl_sb, failed)
          IN  tl_out' = [built |-> TRUE,
                         transition_raised |-> raised,
                         total_duration |-> total_duration,
                         clip_per_scene |-> PerScene(total_duration, tl_sb.cta, num_scenes),
                         overlay_per_scene |->
                             PerScene(OverlayTotal(tl_sb), tl_sb.cta, num_scenes),
                         scene_clips |-> scene_clips,
                         text_overlays |-> text_overlays,
                         layers |-> Layers(scene_clips,
                                           BuildSubtitles(tl_config, num_subtitles),
                                           text_overlays,
                                           BuildLogo(tl_config, total_duration,
                                                     num_scenes, logo_loads),
                                           BuildCta(tl_sb, tl_config, total_duration,
                                                    num_scenes, cta_renders)),
                         music_clips |-> music_clips,
                         audio_tracks |-> audio_tracks,
                         final_audio |-> FinalAudio(audio_tracks)]
    /\ tl_pc' = "built"
    /\ UNCHANGED <<tl_sb, tl_config, notTl>>

\* build_video_from_storyboard raises: the narration file cannot be opened
\* (AudioFileClip) or export_video fails
BuildVideoRaises ==
    /\ tl_pc = "call"
    /\ tl_pc' = "raised"
    /\ UNCHANGED <<tl_sb, tl_config, tl_out, notTl>>

\* a scene as the compositor may find it: plain, with the narration stored on
\* it, or with a visual filled in; with or without a caption
TlScenes ==
    [audio_path : {""}, audio_duration : {0},
     visual_clip : {NoClip}, visual_path : {""}, text_overlay : {<<>>, <<"a">>},
     transition_in : {"cut"}, transition_duration : {1}]
    \cup
    [audio_path : {"narration.mp3"}, audio_duration : TlSceneAudioDurations,
     visual_clip : {NoClip}, visual_path : {""}, text_overlay : {<<>>, <<"a">>},
     transition_in : {"cut"}, transition_duration : {1}]
    \cup
    [audio_path : {""}, audio_duration : {0},
     visual_clip : VisualClips, visual_path : {""}, text_overlay : {<<"a">>},
     transition_in : {"cut"}, transition_duration : {1}]
    \cup
    [audio_path : {""}, audio_duration : {0},
     visual_clip : {NoClip}, visual_path : VisualPaths, text_overlay : {<<>>},
     transition_in : {"cut"}, transition_duration : {1}]

TlStoryboards ==
    [cta : {<<>>, <<"a">>}, target_duration : TlTargetDurations,
     total_audio_duration : TlTotalAudioDurations,
     scenes : SeqsUpTo(TlScenes, MaxTlScenes)]

\* the config: music.enabled, subtitles.enabled, brand.logo, brand.cta.enabled
TlPlainConfigs ==
    [music_enabled : BOOLEAN, subtitles_enabled : {FALSE}, logo : {""},
     cta_enabled : {FALSE}]

TlConfigs ==
    [music_enabled : BOOLEAN, subtitles_enabled : BOOLEAN, logo : {"", "logo.png"},
     cta_enabled : BOOLEAN]

TlInit ==
    /\ tl_pc = "call"
    /\ tl_sb \in TlStoryboards
    /\ tl_config \in TlPlainConfigs
    /\ tl_out = NoBuild

\* the scenes of a storyboard whose layers are composed under any config
TlLayerScenes ==
    [audio_path : {""}, audio_duration : {0},
     visual_clip : {NoClip}, visual_path : {"", "a.png"}, text_overlay : {<<>>, <<"a">>},
     transition_in : {"cut"}, transition_duration : {1}]

TlLayerStoryboards ==
    [cta : {<<>>, <<"a">>}, target_duration : TlTargetDurations,
     total_audio_duration : TlTotalAudioDurations,
     scenes : SeqsUpTo(TlLayerScenes, MaxTlScenes)]

\* the scenes of a storyboard whose scene clips are built: every visual kind
\* with every transition
TlSceneTransitions ==
    {[transition_in |-> "cut", transition_duration |-> 1],
     [transition_in |-> "fade_black", transition_duration |-> 0],
     [transition_in |-> "crossfade", transition_duration |-> 1],
     [transition_in |-> "slide_left", transition_duration |-> 2]}

\* the visuals of those scenes: a rendered clip, an image, a video, a file
\* that cannot be loaded, or nothing
TlClipVisuals ==
    {[visual_clip |-> [none |-> FALSE, duration |-> 30], visual_path |-> ""]}
    \cup [visual_clip : {NoClip}, visual_path : {"", "a.png", "short.mp4", "broken.mp4"}]

TlClipScenes ==
    {[audio_path |-> "", audio_duration |-> 0, visual_clip |-> v.visual_clip,
      visual_path |-> v.visual_path, text_overlay |-> <<>>,
      transition_in |-> tr.transition_in,
      transition_duration |-> tr.transition_duration] :
        v \in TlClipVisuals, tr \in TlSceneTransitions}

TlClipStoryboards ==
    [cta : {<<"a">>}, target_duration : TlTargetDurations,
     total_audio_duration : {0},
     scenes : SeqsUpTo(TlClipScenes, MaxTlScenes)]

SceneClipsInit ==
    /\ tl_pc = "call"
    /\ tl_sb \in TlClipStoryboards
    /\ tl_config = [music_enabled |-> FALSE, subtitles_enabled |-> FALSE, logo |-> "",
                    cta_enabled |-> FALSE]
    /\ tl_out = NoBuild

LayersInit ==
    /\ tl_pc = "call"
    /\ tl_sb \in TlLayerStoryboards
    /\ tl_config \in TlConfigs
    /\ tl_out = NoBuild

TlIdle ==
    /\ tl_pc = "idle"
    /\ tl_sb = [cta |-> <<>>, target_duration |-> 0, total_audio_duration |-> 0,
                scenes |-> <<>>]
    /\ tl_config = [music_enabled |-> TRUE, subtitles_enabled |-> TRUE, logo |-> "",
                    cta_enabled |-> FALSE]
    /\ tl_out = NoBuild

TlNext == BuildVideo \/ BuildVideoRaises

(***************************************************************************)
(* composer/effects.py: the call of TransitionEngine.apply_transition.     *)
(***************************************************************************)
NoClipOut == [source |-> "", effects |-> <<>>]

ApplyTransition ==
    /\ tr_pc = "call"
    /\ \E effect_raises \in BOOLEAN, custom_raises \in BOOLEAN :
          /\ tr_out' = ApplyTransitionTo(tr_args.clip, tr_args.transition_type,
                                         tr_args.duration, effect_raises, custom_raises)
          /\ tr_raised' = [custom |-> custom_raises, effect |-> effect_raises]
    /\ tr_pc' = "returned"
    /\ UNCHANGED <<tr_args, notTr>>

TrInit ==
    /\ tr_pc = "call"
    /\ tr_args \in [clip : Clips, transition_type : TransitionType \cup {"unknown"},
                    duration : TransitionDurations]
    /\ tr_out = NoClipOut
    /\ tr_raised = [custom |-> FALSE, effect |-> FALSE]

TrIdle ==
    /\ tr_pc = "idle"
    /\ tr_args = [clip |-> NoClipOut, transition_type |-> "cut", duration |-> 0]
    /\ tr_out = NoClipOut
    /\ tr_raised = [custom |-> FALSE, effect |-> FALSE]

TrNext == ApplyTransition

(***************************************************************************)
(* brain/director.py: execute_storyboard, step 2 (AI images).              *)
(***************************************************************************)
\* ---- bounds of the inputs
MaxDirScenes == 2       \* scenes of a storyboard the Director executes

\* what generator.generate(prompt) does for one scene
GenerateOutcomes == {"path", "none", "raise"}

\* the except branch leaves the scenes as they are
KeepVisualTypes(scenes, targets) == scenes

\* "for scene in scenes: scene.visual_type = VisualType.STOCK_FOOTAGE"
DowngradeAll(scenes, targets) ==
    [i \in 1..Len(scenes) |->
        IF i \in targets THEN [scenes[i] EXCEPT !.visual_type = STOCK_FOOTAGE]
        ELSE scenes[i]]

\* one pass of the loop body for scene i: a path is stored, no path downgrades
ImageStep(scenes, i, outcome) ==
    IF outcome = "path"
    THEN [scenes EXCEPT ![i].visual_path = "ai_image.png"]
    ELSE [scenes EXCEPT ![i].visual_type = STOCK_FOOTAGE]

RECURSIVE ImageLoop(_, _, _)
\* the loop "for scene in scenes" over the targets still to do (in scene
\* order), up to and without the first scene whose generate raises
ImageLoop(scenes, todo, outcomes) ==
    IF todo = {} THEN scenes
    ELSE LET i == CHOOSE k \in todo : \A j \in todo : k <= j
         IN  IF outcomes[i] = "raise" THEN scenes
             ELSE ImageLoop(ImageStep(scenes, i, outcomes[i]), todo \ {i}, outcomes)

\* the scenes execute_storyboard hands to _generate_ai_images
AiImageScenes(scenes) ==
    {i \in 1..Len(scenes) : scenes[i].visual_type = AI_GENERATED_IMAGE}

\* what the phase met for scene i
OutcomeSeen(targets, i, generator_ok, outcomes) ==
    IF i \notin targets THEN "not_ai"
    ELSE IF ~generator_ok THEN "no_generator"
    ELSE IF \E j \in targets : j < i /\ outcomes[j] = "raise" THEN "not_tried"
    ELSE outcomes[i]

\* the order of the steps of execute_storyboard, with a step that goes back
ExecuteOrderLoops == <<"audio", "images", "videos", "other", "images", "compose">>

\* the order of the steps of execute_storyboard
ExecuteOrder == <<"audio", "images", "videos", "other", "compose">>

\* the step that follows step pc ("done" after the last one)
NextStep(pc) ==
    LET k == CHOOSE j \in 1..Len(ExecuteOrder) : ExecuteOrder[j] = pc
    IN  IF k < Len(ExecuteOrder) THEN ExecuteOrder[k + 1] ELSE "done"

\* Step 1: self._generate_audio(storyboard) returns
RunAudio ==
    /\ dir_pc = "audio"
    /\ phase_log' = Append(phase_log, "audio")
    /\ dir_pc' = NextStep("audio")
    /\ UNCHANGED <<dir_scenes, img_outcome, unloaded, vid_outcome, video_generator,
                   other_i, other_calls, other_last, raised_in, notDir>>

\* Step 1: narration synthesis raises; execute_storyboard has no handler for it
AudioRaises ==
    /\ dir_pc = "audio"
    /\ phase_log' = Append(phase_log, "audio")
    /\ dir_pc' = "raised"
    /\ raised_in' = "audio"
    /\ UNCHANGED <<dir_scenes, img_outcome, unloaded, vid_outcome, video_generator,
                   other_i, other_calls, other_last, notDir>>

\* Director._generate_ai_images, called because some scene is ai_generated_image
GenerateAiImages ==
    /\ dir_pc = "images"
    /\ AiImageScenes(dir_scenes) # {}
    /\ LET targets == AiImageScenes(dir_scenes)
       IN  \E generator_ok \in BOOLEAN, unload_raises \in BOOLEAN,
              outcomes \in [targets -> GenerateOutcomes] :
              LET raised == \E i \in targets : outcomes[i] = "raise"
                  looped == ImageLoop(dir_scenes, targets, outcomes)
              IN  /\ generator_ok => (unload_raises => ~raised)
                  /\ ~generator_ok => (~unload_raises /\ \A i \in targets : outcomes[i] = "none")
                  /\ dir_scenes' =
                        IF ~generator_ok THEN DowngradeAll(dir_scenes, targets)
                        ELSE IF raised \/ unload_raises THEN DowngradeAll(looped, targets)
                        ELSE looped
                  /\ img_outcome' = [i \in 1..Len(dir_scenes) |->
                                        OutcomeSeen(targets, i, generator_ok, outcomes)]
                  /\ unloaded' = (generator_ok /\ ~raised)
    /\ phase_log' = Append(phase_log, "images")
    /\ dir_pc' = NextStep("images")
    /\ UNCHANGED <<vid_outcome, video_generator, other_i, other_calls, other_last, raised_in, notDir>>

\* "Step 2: No AI images needed, skipping"
SkipAiImages ==
    /\ dir_pc = "images"
    /\ AiImageScenes(dir_scenes) = {}
    /\ dir_pc' = NextStep("images")
    /\ UNCHANGED <<dir_scenes, img_outcome, unloaded, vid_outcome, video_generator,
                   other_i, other_calls, other_last, phase_log, raised_in, notDir>>

\* what the Wan2GP subprocess does for one scene; "raise": an exception in the
\* Director's loop body outside generate_single's own handlers
VideoRuns == {"output", "no_output", "timeout", "raise"}

\* Wan2GPVideoGenerator.generate_single: the output path, or None when there
\* is no output file or the subprocess times out
GenerateSingle(run) ==
    IF run = "output" THEN "path" ELSE IF run = "raise" THEN "raise" ELSE "none"

\* one pass of the loop body of _generate_ai_videos for scene i
VideoStep(scenes, i, outcome) ==
    IF outcome = "path"
    THEN [scenes EXCEPT ![i].visual_path = "ai_video.mp4"]
    ELSE [scenes EXCEPT ![i].visual_type = STOCK_FOOTAGE]

RECURSIVE VideoLoop(_, _, _)
\* the loop "for scene in scenes" of _generate_ai_videos over the targets still
\* to do, up to and without the first scene whose pass raises
VideoLoop(scenes, todo, outcomes) ==
    IF todo = {} THEN scenes
    ELSE LET i == CHOOSE k \in todo : \A j \in todo : k <= j
         IN  IF outcomes[i] = "raise" THEN scenes
             ELSE VideoLoop(VideoStep(scenes, i, outcomes[i]), todo \ {i}, outcomes)

\* the scenes execute_storyboard hands to _generate_ai_videos
AiVideoScenes(scenes) ==
    {i \in 1..Len(scenes) : scenes[i].visual_type = AI_GENERATED_VIDEO}

\* what the video phase met for scene i: the subprocess run, or why there was none
VideoRunSeen(targets, i, generator_ok, runs) ==
    IF i \notin targets THEN "not_ai"
    ELSE IF ~generator_ok THEN "no_generator"
    ELSE IF \E j \in targets : j < i /\ GenerateSingle(runs[j]) = "raise" THEN "not_tried"
    ELSE runs[i]

\* Director._generate_ai_videos, called because some scene is ai_generated_video
GenerateAiVideos ==
    /\ dir_pc = "videos"
    /\ AiVideoScenes(dir_scenes) # {}
    /\ LET targets == AiVideoScenes(dir_scenes)
       IN  \E generator_ok \in BOOLEAN, runs \in [targets -> VideoRuns] :
              LET outcomes == [i \in targets |-> GenerateSingle(runs[i])]
                  raised == \E i \in targets : outcomes[i] = "raise"
                  looped == VideoLoop(dir_scenes, targets, outcomes)
              IN  /\ ~generator_ok => \A i \in targets : runs[i] = "no_output"
                  /\ dir_scenes' =
                        IF ~generator_ok \/ raised THEN DowngradeAll(looped, targets)
                        ELSE looped
                  /\ vid_outcome' = [i \in 1..Len(dir_scenes) |->
                                        VideoRunSeen(targets, i, generator_ok, runs)]
                  /\ video_generator' = generator_ok
    /\ phase_log' = Append(phase_log, "videos")
    /\ dir_pc' = NextStep("videos")
    /\ UNCHANGED <<img_outcome, unloaded, other_i, other_calls, other_last, raised_in, notDir>>

\* "Step 3: No AI videos needed, skipping"
SkipAiVideos ==
    /\ dir_pc = "videos"
    /\ AiVideoScenes(dir_scenes) = {}
    /\ dir_pc' = NextStep("videos")
    /\ UNCHANGED <<dir_scenes, img_outcome, unloaded, vid_outcome, video_generator,
                   other_i, other_calls, other_last, phase_log, raised_in, notDir>>

\* what a renderer's render_for_scene does, and what the stock generator does
RenderOutcomes == {"clip", "none", "raise"}
StockOutcomes == {"path", "none", "raise"}

\* the visual types _generate_other_visuals hands to a renderer
Rendered == {INFOGRAPHIC, MOTION_GRAPHIC, TEXT_ANIMATION}

\* Director._generate_stock: a path when footage or a fallback image was found
GenerateStock(scene, stock) ==
    IF stock = "path" THEN [scene EXCEPT !.visual_path = "stock.mp4"] ELSE scene

\* a renderer whose clip is stored and whose scene gets stock footage as well
GenerateRenderedAndStock(scene, render, stock) ==
    IF render = "clip"
    THEN [GenerateStock(scene, "path") EXCEPT !.visual_clip = "clip"]
    ELSE GenerateStock(scene, stock)

\* a renderer wrapper that leaves the scene alone when there is no clip
GenerateRenderedNoFallback(scene, render, stock) ==
    IF render = "clip" THEN [scene EXCEPT !.visual_clip = "clip"] ELSE scene

\* Director._generate_infographic / _generate_motion / _generate_text_animation:
\* the clip, or stock footage when there is no clip or the renderer raises
GenerateRendered(scene, render, stock) ==
    IF render = "clip" THEN [scene EXCEPT !.visual_clip = "clip"]
    ELSE GenerateStock(scene, stock)

\* whether the loop body of _generate_other_visuals calls _generate_stock
CallsStock(scene, render) ==
    /\ scene.visual_path = ""
    /\ \/ scene.visual_type = STOCK_FOOTAGE
       \/ scene.visual_type \in Rendered /\ render # "clip"

\* _generate_stock catches ImportError only: any other exception of the stock
\* generator, and any exception of the legacy fallback, leaves the loop
StockEscapes(scene, render, stock) == CallsStock(scene, render) /\ stock = "raise"

\* an if/elif chain that sends color_background scenes to the stock generator
RouteOtherFillsBackground(scene) ==
    IF scene.visual_path # "" THEN "continue"
    ELSE CASE scene.visual_type \in {STOCK_FOOTAGE, COLOR_BACKGROUND} -> "_generate_stock"
           [] scene.visual_type = INFOGRAPHIC -> "_generate_infographic"
           [] scene.visual_type = MOTION_GRAPHIC -> "_generate_motion"
           [] scene.visual_type = TEXT_ANIMATION -> "_generate_text_animation"
           [] OTHER -> "no_branch"

\* the branch the loop body of _generate_other_visuals takes for one scene:
\* "continue", the generator method it calls, "pass", or no branch at all
RouteOther(scene) ==
    IF scene.visual_path # "" THEN "continue"
    ELSE CASE scene.visual_type = STOCK_FOOTAGE -> "_generate_stock"
           [] scene.visual_type = INFOGRAPHIC -> "_generate_infographic"
           [] scene.visual_type = MOTION_GRAPHIC -> "_generate_motion"
           [] scene.visual_type = TEXT_ANIMATION -> "_generate_text_animation"
           [] scene.visual_type = COLOR_BACKGROUND -> "pass"
           [] OTHER -> "no_branch"

\* the loop body of _generate_other_visuals for one scene
OtherVisual(scene, render, stock) ==
    IF scene.visual_path # "" THEN scene
    ELSE IF scene.visual_type = STOCK_FOOTAGE THEN GenerateStock(scene, stock)
    ELSE IF scene.visual_type \in Rendered THEN GenerateRendered(scene, render, stock)
    ELSE scene

NoPass == [route |-> "", render |-> "", stock |-> ""]

\* what one pass did: the branch taken, the renderer's outcome when a renderer
\* was called, the stock generator's outcome when _generate_stock was called
PassOf(scene, render, stock) ==
    [route |-> RouteOther(scene),
     render |-> IF scene.visual_path = "" /\ scene.visual_type \in Rendered
                THEN render ELSE "",
     stock |-> IF CallsStock(scene, render) THEN stock ELSE ""]

\* Step 4: self._generate_other_visuals(storyboard) is called
StartOtherVisuals ==
    /\ dir_pc = "other"
    /\ phase_log' = Append(phase_log, "other")
    /\ dir_pc' = "other_loop"
    /\ other_i' = 0
    /\ other_calls' = <<>>
    /\ other_last' = NoPass
    /\ UNCHANGED <<dir_scenes, img_outcome, unloaded, vid_outcome, video_generator,
                   raised_in, notDir>>

\* the outcome of the last _generate_stock call of a pass: a renderer wrapper
\* calls it inside its try when the renderer returned None, and once more in
\* its except handler when that call raised
LastStock(scene, render, first, again) ==
    IF scene.visual_type \in Rendered /\ render = "none" /\ first = "raise"
    THEN again ELSE first

\* one pass of "for scene in storyboard.scenes" in _generate_other_visuals
OtherVisualsStep ==
    /\ dir_pc = "other_loop"
    /\ other_i < Len(dir_scenes)
    /\ \E render \in (IF RouteOther(dir_scenes[other_i + 1]) \in
                           {"_generate_infographic", "_generate_motion",
                            "_generate_text_animation"}
                      THEN RenderOutcomes ELSE {"none"}) :
       \E first \in (IF CallsStock(dir_scenes[other_i + 1], render)
                     THEN StockOutcomes ELSE {"none"}) :
       \E again \in (IF render = "none" /\ first = "raise" THEN StockOutcomes ELSE {first}) :
          LET i == other_i + 1
              scene == dir_scenes[i]
              stock == LastStock(scene, render, first, again)
          IN  IF StockEscapes(scene, render, stock)
              THEN /\ dir_pc' = "raised"
                   /\ raised_in' = "other"
                   /\ other_calls' = Append(other_calls, RouteOther(scene))
                   /\ other_last' = PassOf(scene, render, stock)
                   /\ UNCHANGED <<dir_scenes, other_i>>
              ELSE /\ dir_scenes' = [dir_scenes EXCEPT ![i] = OtherVisual(scene, render, stock)]
                   /\ other_i' = i
                   /\ other_calls' = Append(other_calls, RouteOther(scene))
                   /\ other_last' = PassOf(scene, render, stock)
                   /\ UNCHANGED <<dir_pc, raised_in>>
    /\ UNCHANGED <<img_outcome, unloaded, vid_outcome, video_generator, phase_log, notDir>>

\* _generate_other_visuals returns after the last scene
FinishOtherVisuals ==
    /\ dir_pc = "other_loop"
    /\ other_i = Len(dir_scenes)
    /\ dir_pc' = NextStep("other")
    /\ other_last' = NoPass
    /\ UNCHANGED <<dir_scenes, img_outcome, unloaded, vid_outcome, video_generator,
                   other_i, other_calls, phase_log, raised_in, notDir>>

\* Step 5: build_video_from_storyboard is called and returns the output path
Compose ==
    /\ dir_pc = "compose"
    /\ phase_log' = Append(phase_log, "compose")
    /\ dir_pc' = NextStep("compose")
    /\ UNCHANGED <<dir_scenes, img_outcome, unloaded, vid_outcome, video_generator,
                   other_i, other_calls, other_last, raised_in, notDir>>

\* Step 5: build_video_from_storyboard is called and raises (export)
ComposeRaises ==
    /\ dir_pc = "compose"
    /\ phase_log' = Append(phase_log, "compose")
    /\ dir_pc' = "raised"
    /\ raised_in' = "compose"
    /\ UNCHANGED <<dir_scenes, img_outcome, unloaded, vid_outcome, video_generator,
                   other_i, other_calls, other_last, notDir>>

\* Scene(...) as created: visual_path None (""), visual_clip None ("")
NewDirScene(visual_type) ==
    [visual_type |-> visual_type, visual_path |-> "", visual_clip |-> ""]

\* the visual types of the scenes the Director is given (conversation scenes
\* are handled as color_background ones are: no generator is called)
DirVisualTypes == VisualType \ {CONVERSATION}

DirInit ==
    /\ dir_pc = "audio"
    /\ dir_scenes \in {[i \in 1..Len(ts) |-> NewDirScene(ts[i])] :
                          ts \in SeqsUpTo(DirVisualTypes, MaxDirScenes)}
    /\ img_outcome = [i \in 1..Len(dir_scenes) |-> "pending"]
    /\ unloaded = FALSE
    /\ vid_outcome = [i \in 1..Len(dir_scenes) |-> "pending"]
    /\ video_generator = FALSE
    /\ other_i = 0
    /\ other_calls = <<>>
    /\ other_last = NoPass
    /\ phase_log = <<>>
    /\ raised_in = ""

DirIdle ==
    /\ dir_pc = "idle"
    /\ dir_scenes = <<>>
    /\ img_outcome = <<>>
    /\ unloaded = FALSE
    /\ vid_outcome = <<>>
    /\ video_generator = FALSE
    /\ other_i = 0
    /\ other_calls = <<>>
    /\ other_last = NoPass
    /\ phase_log = <<>>
    /\ raised_in = ""

DirNext ==
    \/ RunAudio \/ AudioRaises
    \/ GenerateAiImages \/ SkipAiImages
    \/ GenerateAiVideos \/ SkipAiVideos
    \/ StartOtherVisuals \/ OtherVisualsStep \/ FinishOtherVisuals
    \/ Compose \/ ComposeRaises

(***************************************************************************)
(* brain/storyboard.py: Storyboard.add_scene and Storyboard.from_dict.     *)
(* Scenes are Python objects: the list holds references, and add_scene     *)
(* writes scene_index on the object it is given.                           *)
(***************************************************************************)
\* ---- bounds of the inputs
MaxObjects == 3         \* Scene objects a caller has at hand
MaxAddCalls == 3        \* add_scene calls on one storyboard

Objects == 1..MaxObjects

\* Scene(..., scene_index=k) as constructed by a caller (the default is 0)
PresetIndexes == {0, 1, 7}

\* Storyboard.add_scene(scene) on the list scenes, with the objects' attributes
\* in index: scene.scene_index = len(self.scenes); self.scenes.append(scene)
AddSceneObject(scenes, index, scene) ==
    [scenes |-> Append(scenes, scene),
     index |-> [index EXCEPT ![scene] = Len(scenes)]]

RECURSIVE FromDictLoop(_, _, _, _)
\* "for scene_data in data.get('scenes', [])": scene k+1 .. n are created and
\* added, each a new Scene object
FromDictLoop(scenes, index, k, n) ==
    IF k >= n THEN [scenes |-> scenes, index |-> index]
    ELSE LET created == [index EXCEPT ![k + 1] = 0]
             added == AddSceneObject(scenes, created, k + 1)
         IN  FromDictLoop(added.scenes, added.index, k + 1, n)

\* sb.add_scene(scene), for any Scene object the caller holds
AddSceneCall ==
    /\ st_pc = "ready"
    /\ Len(st_scenes) < MaxAddCalls
    /\ \E scene \in Objects :
          LET added == AddSceneObject(st_scenes, st_index, scene)
          IN  /\ st_scenes' = added.scenes
              /\ st_index' = added.index
    /\ UNCHANGED <<st_pc, notSt>>

\* sb = Storyboard.from_dict(data) with n scenes in data
FromDict ==
    /\ st_pc = "ready"
    /\ st_scenes = <<>>
    /\ \E n \in 1..Min(MaxObjects, MaxAddCalls) :
          LET built == FromDictLoop(<<>>, st_index, 0, n)
          IN  /\ st_scenes' = built.scenes
              /\ st_index' = built.index
    /\ UNCHANGED <<st_pc, notSt>>

StInit ==
    /\ st_pc = "ready"
    /\ st_scenes = <<>>
    /\ st_index \in [Objects -> PresetIndexes]

StIdle ==
    /\ st_pc = "idle"
    /\ st_scenes = <<>>
    /\ st_index = <<>>

StNext == AddSceneCall \/ FromDict

(***************************************************************************)
(* batch_generate.py: main runs generate_video.py once per selected topic. *)
(***************************************************************************)
MaxTopics == 3          \* topics of a topic list

BatchTopicNames == {"dogs", "cats"}
BatchCounts == 0..(MaxTopics + 1)

\* what subprocess.run does for one topic: returns with exit code 0, returns
\* with another exit code, raises TimeoutExpired after 300 s, or raises
\* another exception (the interpreter cannot be started, the output cannot
\* be decoded)
RunOutcomes == {"exit_0", "exit_nonzero", "timeout", "exception"}

\* a timeout leaves no trace in results
PassEntriesSkipTimeout(topic, outcome) ==
    IF outcome = "timeout" THEN <<>>
    ELSE IF outcome = "exit_0" THEN <<[topic |-> topic, status |-> "success"]>>
    ELSE <<[topic |-> topic, status |-> "error"]>>

\* the dicts one pass of the loop appends to results
PassEntries(topic, outcome) ==
    IF outcome = "exit_0" THEN <<[topic |-> topic, status |-> "success"]>>
    ELSE IF outcome = "exit_nonzero" THEN <<[topic |-> topic, status |-> "error"]>>
    ELSE IF outcome = "timeout" THEN <<[topic |-> topic, status |-> "timeout"]>>
    ELSE <<[topic |-> topic, status |-> "error"]>>

\* sum(1 for r in results if r["status"] == "success")
SuccessCount(rs) == Cardinality({k \in 1..Len(rs) : rs[k].status = "success"})

NoSummary == [success |-> -1, failed |-> -1]

\* one pass of "for i, topic in enumerate(topics)"
RunTopic ==
    /\ bat_pc = "loop"
    /\ bat_i < Len(bat_topics)
    /\ \E outcome \in RunOutcomes :
          results' = results \o PassEntries(bat_topics[bat_i + 1], outcome)
    /\ bat_spawned' = bat_spawned + 1
    /\ bat_i' = bat_i + 1
    /\ UNCHANGED <<bat_pc, bat_topics, bat_summary, notBat>>

\* the loop is exhausted: the summary counts
BatchSummary ==
    /\ bat_pc = "loop"
    /\ bat_i = Len(bat_topics)
    /\ bat_pc' = "done"
    /\ bat_summary' = [success |-> SuccessCount(results),
                       failed |-> Len(results) - SuccessCount(results)]
    /\ UNCHANGED <<bat_topics, bat_i, bat_spawned, results, notBat>>

BatchInit ==
    /\ bat_pc = "loop"
    /\ \E topics \in SeqsUpTo(BatchTopicNames, MaxTopics) :
       \E count \in BatchCounts :
          bat_topics = Take(topics, count)
    /\ bat_i = 0
    /\ bat_spawned = 0
    /\ results = <<>>
    /\ bat_summary = NoSummary

BatchIdle ==
    /\ bat_pc = "idle"
    /\ bat_topics = <<>>
    /\ bat_i = 0
    /\ bat_spawned = 0
    /\ results = <<>>
    /\ bat_summary = NoSummary

BatchNext == RunTopic \/ BatchSummary

(***************************************************************************)
(* brain/director.py: create_storyboard (template mode and claude mode).   *)
(***************************************************************************)
BrainModes == {"template", "claude"}

\* the scenes of the JSON object in a Claude response: visual_type and
\* transition_in strings
ClaudeSceneLists ==
    {<<>>,
     <<[visual_type |-> STOCK_FOOTAGE, transition_in |-> "crossfade"]>>,
     <<[visual_type |-> STOCK_FOOTAGE, transition_in |-> "cut"],
       [visual_type |-> "hologram", transition_in |-> "cut"]>>,
     <<[visual_type |-> TEXT_ANIMATION, transition_in |-> "wipe"]>>}

\* what the Claude path meets: the import fails, messages.create raises, or
\* the response text holds no braces, braces around invalid JSON, or an object
ClaudeRuns ==
    {[kind |-> k, scenes |-> <<>>] : k \in {"import_error", "api_error", "no_json", "invalid_json"}}
    \cup {[kind |-> "object", scenes |-> ss] : ss \in ClaudeSceneLists}

NoClaudeRun == [kind |-> "unused", scenes |-> <<>>]

\* Storyboard.from_dict raises ValueError: VisualType(...) or
\* TransitionType(...) of a string outside the enum
FromDictRaises(data) ==
    \E k \in 1..Len(data.scenes) :
        \/ data.scenes[k].visual_type \notin VisualType
        \/ data.scenes[k].transition_in \notin TransitionType

\* "if self.mode == 'claude' and self.claude_api_key"
UsesClaude(in) == in.mode = "claude" /\ in.api_key

\* _create_storyboard_claude returns Storyboard.from_dict(storyboard_data)
ClaudeSucceeds(in) ==
    UsesClaude(in) /\ in.claude.kind = "object" /\ ~FromDictRaises(in.claude)

NoCreated == [from |-> "none", sb |-> NoStoryboard]

\* create_storyboard returns: the storyboard of the Claude response, or the one
\* _create_storyboard_template builds
CreateStoryboard ==
    /\ cs_pc = "call"
    /\ IF ClaudeSucceeds(cs_in)
       THEN cs_out' = [from |-> "claude",
                       sb |-> [scenes |-> cs_in.claude.scenes,
                               target_duration |-> cs_in.args.duration,
                               style |-> cs_in.args.style]]
       ELSE \E sb \in TemplateStoryboards(cs_in.args) :
               cs_out' = [from |-> "template", sb |-> sb]
    /\ cs_pc' = "returned"
    /\ UNCHANGED <<cs_in, notCs>>

\* _create_storyboard_template is reached and generate_storyboard raises:
\* neither create_storyboard nor the handlers of the Claude path catch it
CreateStoryboardRaises ==
    /\ cs_pc = "call"
    /\ ~ClaudeSucceeds(cs_in)
    /\ TemplateStoryboards(cs_in.args) = {}
    /\ cs_pc' = "raised"
    /\ UNCHANGED <<cs_in, cs_out, notCs>>

CsInit ==
    /\ cs_pc = "call"
    /\ \E mode \in BrainModes, api_key \in BOOLEAN,
          args \in GenArgs({<<"Sleep">>}, {20, 41}, {0, DefaultMaxScenes}) :
       \E claude \in (IF mode = "claude" /\ api_key THEN ClaudeRuns ELSE {NoClaudeRun}) :
          cs_in = [mode |-> mode, api_key |-> api_key, args |-> args, claude |-> claude]
    /\ cs_out = NoCreated

CsIdle ==
    /\ cs_pc = "idle"
    /\ cs_in = [mode |-> "template", api_key |-> FALSE,
                args |-> [topic |-> <<>>, duration |-> 0, style |-> "education",
                          visual_mode |-> "stock", max_scenes |-> 0],
                claude |-> NoClaudeRun]
    /\ cs_out = NoCreated

CsNext == CreateStoryboard \/ CreateStoryboardRaises

(***************************************************************************)
(* Specifications: one per component, the others idle.                     *)
(***************************************************************************)
InitGen == GenInit /\ AudIdle /\ TlIdle /\ TrIdle /\ DirIdle /\ StIdle /\ BatchIdle /\ CsIdle
SpecGen == InitGen /\ [][GenNext]_vars

InitAudio == AudInit /\ GenIdle /\ TlIdle /\ TrIdle /\ DirIdle /\ StIdle /\ BatchIdle /\ CsIdle
SpecAudio == InitAudio /\ [][AudNext]_vars

InitTimeline == TlInit /\ GenIdle /\ AudIdle /\ TrIdle /\ DirIdle /\ StIdle /\ BatchIdle /\ CsIdle
SpecTimeline == InitTimeline /\ [][TlNext]_vars

InitTransition == TrInit /\ GenIdle /\ AudIdle /\ TlIdle /\ DirIdle /\ StIdle /\ BatchIdle /\ CsIdle
SpecTransition == InitTransition /\ [][TrNext]_vars

InitDirector == DirInit /\ GenIdle /\ AudIdle /\ TlIdle /\ TrIdle /\ StIdle /\ BatchIdle /\ CsIdle
SpecDirector == InitDirector /\ [][DirNext]_vars

InitLayers == LayersInit /\ GenIdle /\ AudIdle /\ TrIdle /\ DirIdle /\ StIdle /\ BatchIdle /\ CsIdle
SpecLayers == InitLayers /\ [][TlNext]_vars

InitSceneClips == SceneClipsInit /\ GenIdle /\ AudIdle /\ TrIdle /\ DirIdle /\ StIdle /\ BatchIdle /\ CsIdle
SpecSceneClips == InitSceneClips /\ [][TlNext]_vars

InitStoryboard == StInit /\ GenIdle /\ AudIdle /\ TlIdle /\ TrIdle /\ DirIdle /\ BatchIdle /\ CsIdle
SpecStoryboard == InitStoryboard /\ [][StNext]_vars

InitBatch == BatchInit /\ GenIdle /\ AudIdle /\ TlIdle /\ TrIdle /\ DirIdle /\ StIdle /\ CsIdle
SpecBatch == InitBatch /\ [][BatchNext]_vars

InitCreate == CsInit /\ GenIdle /\ AudIdle /\ TlIdle /\ TrIdle /\ DirIdle /\ StIdle /\ BatchIdle
SpecCreate == InitCreate /\ [][CsNext]_vars

(***************************************************************************)
(* Claims about generate_storyboard (SpecGen).                             *)
(***************************************************************************)
\* the scene count the duration-bucket rule documents
DocumentedSceneCount(duration, max_scenes) ==
    CASE duration <= 20 -> 2
      [] duration > 20 /\ duration <= 40 -> 3
      [] OTHER -> IF max_scenes < 4 THEN max_scenes ELSE 4

\* C1: for every topic, style, visual_mode, max_scenes and duration,
\* generate_storyboard returns a Storyboard with 2 scenes when duration <= 20,
\* 3 when 20 < duration <= 40 and min(4, max_scenes) otherwise, whose
\* scene_index values are 0..n-1 in list order.
C1_SceneCountAndIndices ==
    gen_pc # "call" =>
        /\ gen_pc = "returned"
        /\ Len(gen_sb.scenes) = DocumentedSceneCount(gen_args.duration, gen_args.max_scenes)
        /\ \A i \in 1..Len(gen_sb.scenes) : gen_sb.scenes[i].scene_index = i - 1

\* the hashtags as the claim words them: the first three words of the topic,
\* lowercased, each prefixed with #, then the fixed tags
HashtagsOfTopicWords(topic, style) ==
    LET first == Take(Split(topic), 3)
    IN  [i \in 1..Len(first) |-> <<"#">> \o Lower(first[i])]
        \o << <<"#", "shorts">>, <<"#", "viral">>, <<"#", style>> >>

\* the topic's words, each lowercased and stripped of its commas, without the
\* words that consisted of commas only
CleanTopicWords(topic) ==
    LET raw == Split(topic)
        clean == [i \in 1..Len(raw) |-> SelectSeq(Lower(raw[i]), LAMBDA c : c # ",")]
    IN  SelectSeq(clean, LAMBDA w : w # <<>>)

AllStock(storyboard) ==
    \A i \in 1..Len(storyboard.scenes) : storyboard.scenes[i].visual_type = STOCK_FOOTAGE

\* C10 as stated: with visual_mode "stock" every scene is stock_footage and the
\* hashtags are the first three lowercase topic words prefixed with #, followed
\* by #shorts, #viral and #<style>.
C10_HashtagsAreTopicWords ==
    (gen_pc = "returned" /\ gen_args.visual_mode = "stock") =>
        /\ AllStock(gen_sb)
        /\ gen_sb.hashtags = HashtagsOfTopicWords(gen_args.topic, gen_args.style)

\* C10 amended: with visual_mode "stock" every scene is stock_footage and the
\* hashtags are the first three words of the lowercased topic with its commas
\* deleted (a word made of commas only disappears), each prefixed with #,
\* followed by #shorts, #viral and #<style>; for duration 20 and style education
\* there are exactly 2 scenes and the tags #shorts, #viral, #education. The call
\* returns for every max_scenes >= 1 (the default is 6).
C10_StockScenesAndHashtags ==
    /\ (gen_pc # "call" /\ gen_args.max_scenes >= 1) => gen_pc = "returned"
    /\ (gen_pc = "returned" /\ gen_args.visual_mode = "stock") =>
           /\ AllStock(gen_sb)
           /\ LET words == Take(CleanTopicWords(gen_args.topic), 3)
                  n == Len(words)
              IN  /\ Len(gen_sb.hashtags) = n + 3
                  /\ \A i \in 1..n : gen_sb.hashtags[i] = <<"#">> \o words[i]
                  /\ gen_sb.hashtags[n + 1] = <<"#", "shorts">>
                  /\ gen_sb.hashtags[n + 2] = <<"#", "viral">>
                  /\ gen_sb.hashtags[n + 3] = <<"#", gen_args.style>>
           /\ (gen_args.duration = 20 /\ gen_args.style = "education") =>
                 /\ Len(gen_sb.scenes) = 2
                 /\ {<<"#", "shorts">>, <<"#", "viral">>, <<"#", "education">>}
                        \subseteq Range(gen_sb.hashtags)

\* a stock storyboard of duration 20, style education, for a topic of more than
\* three words with an upper-case word and a comma
C10_Witness ==
    /\ gen_pc = "returned"
    /\ gen_args.visual_mode = "stock"
    /\ gen_args.duration = 20
    /\ gen_args.style = "education"
    /\ Len(Split(gen_args.topic)) > 3
    /\ "Sleep" \in Range(gen_args.topic)
    /\ "," \in Range(gen_args.topic)
    /\ Len(gen_sb.scenes) = 2
    /\ Len(gen_sb.hashtags) = 6

(***************************************************************************)
(* Claims about the audio phase (SpecAudio).                               *)
(***************************************************************************)
RECURSIVE SumSeq(_)
SumSeq(ns) == IF ns = <<>> THEN 0 ELSE Head(ns) + SumSeq(Tail(ns))

\* whitespace-separated word counts
WordCount(s) == Len(Split(s))
SceneWordCounts(storyboard) ==
    [i \in 1..Len(storyboard.scenes) |-> WordCount(storyboard.scenes[i].text)]

\* scenes[0].word_timestamps + scenes[1].word_timestamps + ...
ConcatSceneTimestamps(storyboard) ==
    Flatten([i \in 1..Len(storyboard.scenes) |-> storyboard.scenes[i].word_timestamps])

C3_SliceStart ==
    aud_pc = "done" =>
        \A i \in 1..Len(aud_sb.scenes) :
            LET L == Len(result.word_timestamps)
                counts == SceneWordCounts(aud_sb)
                start == WordCount(aud_sb.hook) + SumSeq(SubSeq(counts, 1, i - 1))
                slice == aud_sb.scenes[i].word_timestamps
            IN  /\ L <= start => slice = <<>>
                /\ L > start =>
                      /\ Len(slice) = (IF start + counts[i] <= L THEN counts[i] ELSE L - start)
                      /\ \A k \in 1..Len(slice) : slice[k] = result.word_timestamps[start + k]

\* a hook word, a first scene whose slice is cut by the end of the list and a
\* second scene whose start index lies beyond the list
C3_Witness ==
    /\ aud_pc = "done"
    /\ WordCount(aud_sb.hook) = 1
    /\ Len(aud_sb.scenes) = 2
    /\ SceneWordCounts(aud_sb) = <<2, 1>>
    /\ Len(result.word_timestamps) = 2
    /\ aud_sb.scenes[1].word_timestamps = <<2>>
    /\ aud_sb.scenes[2].word_timestamps = <<>>

\* hook (if not empty), every scene text, cta (if not empty)
ClaimedParts(storyboard) ==
    (IF storyboard.hook = <<>> THEN <<>> ELSE <<storyboard.hook>>)
    \o [i \in 1..Len(storyboard.scenes) |-> storyboard.scenes[i].text]
    \o (IF storyboard.cta = <<>> THEN <<>> ELSE <<storyboard.cta>>)

\* the word counts of hook, scenes and cta add up to the narration's
NarrationWordCountAddsUp ==
    WordCount(full_text) =
        WordCount(aud_sb.hook) + SumSeq(SceneWordCounts(aud_sb)) + WordCount(aud_sb.cta)

\* C4 as stated: the narration is the space-joined sequence hook, scene texts
\* in order, cta, with only hook and cta left out when empty; so its word count
\* is the sum of the word counts of hook, scenes and cta.
C4_NarrationJoinsAllSceneTexts ==
    aud_pc = "done" =>
        /\ full_text = JoinWith(<<" ">>, ClaimedParts(aud_sb))
        /\ NarrationWordCountAddsUp

\* C4 amended: the narration is the space-joined sequence hook, scene texts in
\* order, cta, with hook, cta and every scene text left out when empty; so its
\* word count is the sum of the word counts of hook, scenes and cta.
C4_NarrationJoinsNonEmptyTexts ==
    aud_pc = "done" =>
        /\ full_text = JoinWith(<<" ">>, SelectSeq(ClaimedParts(aud_sb), LAMBDA t : t # <<>>))
        /\ NarrationWordCountAddsUp

\* hook, cta, an empty scene text and a two-word scene text
C4_Witness ==
    /\ aud_pc = "done"
    /\ aud_sb.hook = <<"a">>
    /\ aud_sb.cta = <<" ", "a">>
    /\ Len(aud_sb.scenes) = 2
    /\ aud_sb.scenes[1].text = <<>>
    /\ aud_sb.scenes[2].text = <<"a", " ", "b">>
    /\ full_text = <<"a", " ", "a", " ", "b", " ", " ", "a">>

(***************************************************************************)
(* Claims about the compositor (SpecTimeline).                             *)
(***************************************************************************)
\* the clips of the scenes: scene_clips without the background in front
SceneClipsOnly == SubSeq(tl_out.scene_clips, 2, Len(tl_out.scene_clips))

\* C5: for every total duration (also below 6 seconds, where content_time is
\* negative) and every scene count >= 1, per_scene >= 3.0 in both builders, and
\* no scene clip and no text overlay has a zero or negative duration (each
\* lasts at least 3 seconds).
C5_PerSceneFloor ==
    (tl_pc = "built" /\ Len(tl_sb.scenes) >= 1) =>
        LET n == Len(tl_sb.scenes)
        IN  /\ tl_out.clip_per_scene >= 3 * n
            /\ tl_out.overlay_per_scene >= 3 * n
            /\ Len(SceneClipsOnly) = n
            /\ \A k \in 1..n : /\ SceneClipsOnly[k].duration > 0
                               /\ SceneClipsOnly[k].duration >= 3 * n
            /\ \A k \in 1..Len(tl_out.text_overlays) :
                   /\ tl_out.text_overlays[k].duration > 0
                   /\ tl_out.text_overlays[k].duration >= 3 * n

\* a build of 4 seconds with a cta (content_time = -2), two scenes, one of them
\* animated, and a caption
C5_Witness ==
    /\ tl_pc = "built"
    /\ tl_out.total_duration = 4
    /\ tl_sb.cta # <<>>
    /\ Len(tl_sb.scenes) = 2
    /\ \E k \in 1..2 : SceneClipsOnly[k].kind = "animated"
    /\ Len(tl_out.text_overlays) >= 1
    /\ tl_out.clip_per_scene = 6

\* C6: within one build, for any total_audio_duration, target_duration and
\* audio_path / audio_duration on a scene, _build_scene_clips and
\* _build_text_overlays compute the same per_scene and the same start time for
\* every scene.
C6_BuildersAgree ==
    tl_pc = "built" =>
        /\ tl_out.clip_per_scene = tl_out.overlay_per_scene
        /\ \A k \in 1..Len(tl_out.text_overlays) :
               LET o == tl_out.text_overlays[k]
               IN  o.start = SceneClipsOnly[o.scene + 1].start

\* C9: with music.enabled false, _build_music returns an empty list and the
\* final audio is the narration clip itself when a scene carries an audio_path,
\* and no audio otherwise; no CompositeAudioClip is made.
C9_NoMusicWhenDisabled ==
    (tl_pc = "built" /\ ~tl_config.music_enabled) =>
        /\ tl_out.music_clips = <<>>
        /\ tl_out.final_audio # "CompositeAudioClip"
        /\ tl_out.final_audio =
              (IF \E i \in 1..Len(tl_sb.scenes) : tl_sb.scenes[i].audio_path # ""
               THEN "narration" ELSE "None")

\* music disabled, a narration on the first scene
C9_Witness ==
    /\ tl_pc = "built"
    /\ ~tl_config.music_enabled
    /\ Len(tl_sb.scenes) >= 1
    /\ tl_sb.scenes[1].audio_path # ""
    /\ tl_out.audio_tracks = <<"narration">>
    /\ tl_out.final_audio = "narration"

(***************************************************************************)
(* Claims about the transition engine (SpecTransition).                    *)
(***************************************************************************)
\* C7: apply_transition returns its input clip unchanged for type cut with any
\* duration, and for every transition type when the duration is 0.
C7_CutAndZeroAreIdentity ==
    tr_pc = "returned" =>
        /\ tr_args.transition_type = "cut" => tr_out = tr_args.clip
        /\ tr_args.duration = 0 => tr_out = tr_args.clip

\* a zoom_in of duration 0 on a clip that already carries an effect
C7_Witness ==
    /\ tr_pc = "returned"
    /\ tr_args.transition_type = "zoom_in"
    /\ tr_args.duration = 0
    /\ tr_args.clip.effects # <<>>
    /\ tr_out = tr_args.clip

(***************************************************************************)
(* Claims about the Director's AI image phase (SpecDirector).              *)
(***************************************************************************)
ImageFailed(i) == img_outcome[i] \in {"no_generator", "none", "raise"}

\* C8: every scene whose image generation fails (no generator, generate
\* returns no path, or generate raises) ends the AI image phase with
\* visual_type stock_footage and visual_path None; so when generation fails for
\* all scenes, all of them end the phase as stock_footage without visual_path.
C8_FailedImagesBecomeStock ==
    dir_pc = "videos" =>
        \A i \in 1..Len(dir_scenes) :
            ImageFailed(i) =>
                /\ dir_scenes[i].visual_type = STOCK_FOOTAGE
                /\ dir_scenes[i].visual_path = ""

\* two ai_generated_image scenes: generate returns nothing for the first and
\* raises for the second; both end as stock_footage without a path
C8_Witness ==
    /\ dir_pc = "videos"
    /\ Len(dir_scenes) = 2
    /\ img_outcome = <<"none", "raise">>
    /\ \A i \in 1..2 : /\ dir_scenes[i].visual_type = STOCK_FOOTAGE
                       /\ dir_scenes[i].visual_path = ""

(***************************************************************************)
(* Claims about Director.execute_storyboard as a whole (SpecDirector).     *)
(***************************************************************************)
\* C11: whatever the AI image, AI video, stock, infographic, motion and
\* text-animation generators do (a path or clip, nothing, or an exception), no
\* generator failure leaves execute_storyboard: a run whose narration was
\* synthesized never ends with an exception before build_video_from_storyboard
\* has been called.
C11_GeneratorFailuresNeverPropagate ==
    dir_pc = "raised" => (raised_in = "audio" \/ "compose" \in Range(phase_log))

\* the place of a phase in the documented order
PhaseRank(phase) ==
    CASE phase = "audio" -> 1
      [] phase = "images" -> 2
      [] phase = "videos" -> 3
      [] phase \in {"other", "other_loop"} -> 4
      [] phase = "compose" -> 5
      [] OTHER -> 6

ImageGeneratorObtained ==
    \E i \in 1..Len(img_outcome) : img_outcome[i] \in {"path", "none", "raise", "not_tried"}

\* C13: in every run in which the AI image phase obtained an image generator,
\* its unload has been called by the time the AI video generator is created,
\* whether all images succeeded, some returned no path, or a generate call
\* raised.
C13_UnloadBeforeVideoGenerator ==
    (video_generator /\ ImageGeneratorObtained) => unloaded

\* C15: whatever the generators do, no scene has both visual_path and
\* visual_clip populated, during and after the visual phases 2, 3 and 4: a scene
\* has one of them or neither.
C15_PathOrClipNotBoth ==
    \A i \in 1..Len(dir_scenes) :
        ~(dir_scenes[i].visual_path # "" /\ dir_scenes[i].visual_clip # "")

\* the visual phases are over: a scene with a rendered clip only and a scene
\* with an AI image path only
C15_Witness ==
    /\ dir_pc = "compose"
    /\ Len(dir_scenes) = 2
    /\ \E i \in 1..2 : dir_scenes[i].visual_clip # "" /\ dir_scenes[i].visual_path = ""
    /\ \E i \in 1..2 : dir_scenes[i].visual_clip = "" /\ dir_scenes[i].visual_path = "ai_image.png"

\* the AI video subprocess timed out for scene i
TimedOut(i) == vid_outcome[i] = "timeout"

\* C17: when the AI video subprocess times out for a scene, that scene ends the
\* video phase as stock_footage without a path, the other AI video scenes are
\* still generated (a scene whose subprocess delivered gets its path), and the
\* run goes on to phase 4 and to compose: it does not end with an exception
\* before build_video_from_storyboard is called.
C17_TimeoutNeverAborts ==
    (\E i \in 1..Len(vid_outcome) : TimedOut(i)) =>
        /\ dir_pc = "other" =>
              \A i \in 1..Len(dir_scenes) :
                 /\ TimedOut(i) => /\ dir_scenes[i].visual_type = STOCK_FOOTAGE
                                   /\ dir_scenes[i].visual_path = ""
                 /\ (vid_outcome[i] = "output" /\ "raise" \notin Range(vid_outcome)) =>
                        dir_scenes[i].visual_path = "ai_video.mp4"
        /\ dir_pc = "raised" => "compose" \in Range(phase_log)

(***************************************************************************)
(* Claims about Storyboard.add_scene (SpecStoryboard).                     *)
(***************************************************************************)
\* C14: after any sequence of add_scene calls (those of from_dict included),
\* the scene at every position i has scene_index i: the indices are contiguous,
\* zero-based and equal to the list position.
C14_IndexEqualsPosition ==
    \A i \in 1..Len(st_scenes) : st_index[st_scenes[i]] = i - 1

(***************************************************************************)
(* Claims about failing transitions (SpecTransition).                      *)
(***************************************************************************)
CustomTransitions == {"slide_left", "slide_right", "zoom_in", "zoom_out"}

\* a custom transition of positive duration whose transform raised
CustomTransformRaised ==
    /\ tr_pc = "returned"
    /\ tr_args.transition_type \in CustomTransitions
    /\ tr_args.duration > 0
    /\ tr_raised.custom

\* C16 as stated: when applying a custom transition raises, apply_transition
\* returns the clip with a plain crossfade-in of the requested duration.
C16_CustomFailureGivesCrossfade ==
    CustomTransformRaised =>
        tr_out = WithEffect(tr_args.clip, "CrossFadeIn", tr_args.duration)

\* C16: when applying a custom transition raises, apply_transition returns the
\* clip with a plain crossfade-in of the requested duration, or the clip as it
\* was given when applying that crossfade raises too; the call always returns a
\* clip, no exception leaves it.
C16_CustomFailureGivesCrossfadeOrClip ==
    /\ tr_pc = "returned" => tr_out.source = tr_args.clip.source
    /\ CustomTransformRaised =>
          tr_out = (IF tr_raised.effect THEN tr_args.clip
                    ELSE WithEffect(tr_args.clip, "CrossFadeIn", tr_args.duration))

\* a zoom_out of half a second whose transform raised and whose crossfade did not
C16_Witness ==
    /\ CustomTransformRaised
    /\ tr_args.transition_type = "zoom_out"
    /\ tr_args.duration = 1
    /\ ~tr_raised.effect
    /\ tr_out.effects = Append(tr_args.clip.effects, [effect |-> "CrossFadeIn", duration |-> 1])

(***************************************************************************)
(* Claims about the total runtime (SpecTimeline).                          *)
(***************************************************************************)
\* the storyboard as the audio phase leaves it (or before it ran): the scene
\* that carries the narration file carries the storyboard's narration duration
AudioPhaseFilled(storyboard) ==
    \A i \in 1..Len(storyboard.scenes) :
        storyboard.scenes[i].audio_path # "" =>
            storyboard.scenes[i].audio_duration = storyboard.total_audio_duration

\* C18: the build uses the narration duration as total runtime whenever
\* total_audio_duration is known (positive), for the scene slots and the overlay
\* slots alike, and the declared target_duration only when none is known.
C18_NarrationDurationOverridesTarget ==
    (tl_pc = "built" /\ AudioPhaseFilled(tl_sb)) =>
        LET total == IF tl_sb.total_audio_duration > 0 THEN tl_sb.total_audio_duration
                     ELSE tl_sb.target_duration
            per_scene == PerScene(total, tl_sb.cta, Len(tl_sb.scenes))
        IN  /\ tl_out.total_duration = total
            /\ tl_out.clip_per_scene = per_scene
            /\ tl_out.overlay_per_scene = per_scene
            /\ tl_out.scene_clips[1].duration = total * Ticks(Len(tl_sb.scenes))

\* a 4 s narration stored by the audio phase against a declared target of 30 s
C18_Witness ==
    /\ tl_pc = "built"
    /\ Len(tl_sb.scenes) = 2
    /\ tl_sb.total_audio_duration = 4
    /\ tl_sb.target_duration = 30
    /\ tl_sb.scenes[1].audio_path = "narration.mp3"
    /\ tl_sb.scenes[1].audio_duration = 4
    /\ tl_out.total_duration = 4

(***************************************************************************)
(* Claims about the order of the composed layers (SpecLayers).             *)
(***************************************************************************)
\* the group a layer belongs to, in the documented stacking order
LayerGroup(layer) ==
    CASE layer.kind = "background" -> 1
      [] layer.kind \in {"animated", "image", "video", "filler"} -> 2
      [] layer.kind = "subtitle" -> 3
      [] layer.kind = "overlay" -> 4
      [] layer.kind = "logo" -> 5
      [] layer.kind = "cta" -> 6
      [] OTHER -> 0

LayersOfGroup(layers, group) == {k \in 1..Len(layers) : LayerGroup(layers[k]) = group}

\* C19: the composed layer list holds exactly one background of the full total
\* duration, first; then one clip per scene in scene order; then the subtitle
\* clips, the text overlays, at most one logo (only when brand.logo is set) and
\* at most one CTA (only when it is enabled and the storyboard has one); no
\* layer of a later group precedes a layer of an earlier group.
C19_LayersInDocumentedOrder ==
    tl_pc = "built" =>
        LET layers == tl_out.layers
            num_scenes == Len(tl_sb.scenes)
        IN  /\ Len(layers) >= 1
            /\ LayersOfGroup(layers, 1) = {1}
            /\ layers[1].duration = tl_out.total_duration * Ticks(num_scenes)
            /\ LayersOfGroup(layers, 2) = 2..(num_scenes + 1)
            /\ \A i \in 1..num_scenes : layers[i + 1].scene = i - 1
            /\ \A k \in 1..Len(layers) : LayerGroup(layers[k]) \in 1..6
            /\ \A j, k \in 1..Len(layers) :
                  j < k => LayerGroup(layers[j]) <= LayerGroup(layers[k])
            /\ Cardinality(LayersOfGroup(layers, 5)) <= 1
            /\ Cardinality(LayersOfGroup(layers, 6)) <= 1
            /\ LayersOfGroup(layers, 5) # {} => tl_config.logo # ""
            /\ LayersOfGroup(layers, 6) # {} => (tl_config.cta_enabled /\ tl_sb.cta # <<>>)
            /\ \A j, k \in LayersOfGroup(layers, 4) :
                  j < k => layers[j].scene < layers[k].scene

\* two scenes with captions, subtitles, a logo and a call to action: all six
\* groups are present
C19_Witness ==
    /\ tl_pc = "built"
    /\ Len(tl_sb.scenes) = 2
    /\ \A group \in 1..6 : LayersOfGroup(tl_out.layers, group) # {}
    /\ Len(tl_out.layers) = 9

\* no scene at all: the background alone under the decorations
C19_WitnessNoScenes ==
    /\ tl_pc = "built"
    /\ tl_sb.scenes = <<>>
    /\ tl_out.layers[1].kind = "background"
    /\ Len(tl_out.layers) > 1

(***************************************************************************)
(* Claims about the timestamps the subtitles are made of (SpecAudio).      *)
(***************************************************************************)
\* C20 as stated: with subtitles on, the list _build_subtitles hands to the
\* subtitle builder after the audio phase is the global list narration
\* synthesis returned: every word timestamp (hook, scene and cta words) exactly
\* once, in the original order.
C20_SubtitlesGetGlobalList ==
    (aud_pc = "subtitled" /\ subtitle_input.enabled) =>
        subtitle_input.word_timestamps = result.word_timestamps

(***************************************************************************)
(* Claims about where the narration is stored (SpecAudio).                 *)
(***************************************************************************)
\* C21: after the audio phase on a storyboard with at least one scene, the
\* first scene holds the path and the duration narration synthesis returned
\* (Edge TTS or the cloned voice), total_audio_duration equals the first
\* scene's audio_duration, and no other scene has an audio_path or an
\* audio_duration.
C21_NarrationOnFirstSceneOnly ==
    (aud_pc \in {"done", "subtitled"} /\ aud_sb.scenes # <<>>) =>
        /\ aud_sb.scenes[1].audio_path = result.audio_path
        /\ aud_sb.scenes[1].audio_path # ""
        /\ aud_sb.scenes[1].audio_duration = result.duration
        /\ aud_sb.total_audio_duration = aud_sb.scenes[1].audio_duration
        /\ \A i \in 2..Len(aud_sb.scenes) :
              /\ aud_sb.scenes[i].audio_path = ""
              /\ aud_sb.scenes[i].audio_duration = 0

\* a cloned narration of 12 s on a storyboard of two scenes
C21_Witness ==
    /\ aud_pc = "done"
    /\ Len(aud_sb.scenes) = 2
    /\ result.audio_path = "clone.wav"
    /\ aud_sb.scenes[1].audio_path = "clone.wav"
    /\ aud_sb.scenes[1].audio_duration = 12
    /\ aud_sb.total_audio_duration = 12
    /\ aud_sb.scenes[2].audio_path = ""

(***************************************************************************)
(* Claims about the planned scene duration (SpecGen).                      *)
(***************************************************************************)
\* C22 as stated: every scene generate_storyboard produces has the planned
\* duration max(5, (duration - 6) / segment_count), the exact quotient (both
\* sides multiplied by segment_count here).
C22_SegmentDurationIsExactQuotient ==
    gen_pc = "returned" =>
        LET n == NumSegments(gen_args.duration, gen_args.max_scenes)
        IN  \A i \in 1..Len(gen_sb.scenes) :
                gen_sb.scenes[i].duration * n = Max(5 * n, gen_args.duration - 6)

\* C22: every scene generate_storyboard produces has the same planned duration
\* q, a whole number: q = 5 when (duration - 6) / segment_count is below 6,
\* and otherwise the quotient rounded down, q <= (duration - 6) / segment_count
\* < q + 1.
C22_SegmentDurationIsFlooredQuotient ==
    gen_pc = "returned" =>
        LET n == NumSegments(gen_args.duration, gen_args.max_scenes)
            rest == gen_args.duration - 6
        IN  \A i \in 1..Len(gen_sb.scenes) :
                LET q == gen_sb.scenes[i].duration
                IN  /\ q >= 5
                    /\ rest < 6 * n => q = 5
                    /\ rest >= 6 * n => (q * n <= rest /\ rest < (q + 1) * n)

\* 40 s in three segments: 34 / 3 is planned as 11 s per scene
C22_Witness ==
    /\ gen_pc = "returned"
    /\ gen_args.duration = 40
    /\ Len(gen_sb.scenes) = 3
    /\ \A i \in 1..3 : gen_sb.scenes[i].duration = 11

(***************************************************************************)
(* Claims about the routing of the remaining visuals (SpecDirector).       *)
(***************************************************************************)
\* C23: each pass of the loop of _generate_other_visuals touches the scene it
\* is at and no other; a scene that already has a visual_path is skipped and
\* left as it is; a scene without a visual is handed to the generator of its
\* visual_type (stock, infographic, motion graphic, text animation); a
\* color_background scene is left completely unchanged; visual_type is never
\* written.
C23_OtherVisualsRouting ==
    [][(dir_pc = "other_loop" /\ Len(other_calls') = Len(other_calls) + 1) =>
          LET i == Len(other_calls')
              scene == dir_scenes[i]
              after == dir_scenes'[i]
              call == other_calls'[i]
          IN  /\ i = other_i + 1
              /\ \A j \in 1..Len(dir_scenes) : j # i => dir_scenes'[j] = dir_scenes[j]
              /\ after.visual_type = scene.visual_type
              /\ scene.visual_path # "" => (call = "continue" /\ after = scene)
              /\ (scene.visual_path = "" /\ scene.visual_type = STOCK_FOOTAGE)
                    => call = "_generate_stock"
              /\ (scene.visual_path = "" /\ scene.visual_type = INFOGRAPHIC)
                    => call = "_generate_infographic"
              /\ (scene.visual_path = "" /\ scene.visual_type = MOTION_GRAPHIC)
                    => call = "_generate_motion"
              /\ (scene.visual_path = "" /\ scene.visual_type = TEXT_ANIMATION)
                    => call = "_generate_text_animation"
              /\ scene.visual_type = COLOR_BACKGROUND
                    => (call \in {"pass", "continue"} /\ after = scene)
      ]_vars

\* phase 4 is over: a color_background scene has no visual, a text animation
\* went to its renderer
C23_Witness ==
    /\ dir_pc = "compose"
    /\ other_calls = <<"pass", "_generate_text_animation">>
    /\ dir_scenes[1] = [visual_type |-> COLOR_BACKGROUND, visual_path |-> "",
                        visual_clip |-> ""]
    /\ dir_scenes[2].visual_clip = "clip"

(***************************************************************************)
(* Claims about the scene clips and their transitions (SpecSceneClips).    *)
(***************************************************************************)
\* the moviepy effect or custom transform of a transition type
EffectOf(transition_type) ==
    CASE transition_type = "crossfade" -> "CrossFadeIn"
      [] transition_type = "fade_black" -> "FadeIn"
      [] OTHER -> transition_type

\* C24: the clip of scene i (0-based) starts at 3.0 + i * per_scene whatever
\* its visual is, so each slot begins where the one before ends and no clip
\* reaches into the next slot; the clip carries the transition of its own
\* scene with that scene's duration: none for a cut or a duration of zero, the
\* scene's effect when nothing raises, and never the effect of another scene.
C24_ClipsStartAtCumulativeOffset ==
    tl_pc = "built" =>
        LET n == Len(tl_sb.scenes)
            per_scene == tl_out.clip_per_scene
        IN  /\ Len(tl_out.scene_clips) = n + 1
            /\ \A i \in 1..n :
                  LET clip == tl_out.scene_clips[i + 1]
                      scene == tl_sb.scenes[i]
                      raised == tl_out.transition_raised[i]
                      own == <<[effect |-> EffectOf(scene.transition_in),
                                duration |-> scene.transition_duration]>>
                      crossfade == <<[effect |-> "CrossFadeIn",
                                      duration |-> scene.transition_duration]>>
                  IN  /\ clip.scene = i - 1
                      /\ clip.start = 3 * n + (i - 1) * per_scene
                      /\ clip.duration <= per_scene
                      /\ i < n => tl_out.scene_clips[i + 2].start = clip.start + per_scene
                      /\ clip.effects \in {<<>>, own, crossfade}
                      /\ (scene.transition_in = "cut" \/ scene.transition_duration <= 0)
                            => clip.effects = <<>>
                      /\ (scene.transition_in # "cut" /\ scene.transition_duration > 0
                          /\ ~raised.custom /\ ~raised.effect)
                            => clip.effects = own

\* two scenes, a rendered clip sliding in over 1 s and an unreadable video with
\* a crossfade: the second starts one slot after the first, each with its own
\* transition
C24_Witness ==
    /\ tl_pc = "built"
    /\ Len(tl_sb.scenes) = 2
    /\ tl_sb.target_duration = 30
    /\ tl_sb.scenes[1].transition_in = "slide_left"
    /\ tl_sb.scenes[2].transition_in = "crossfade"
    /\ tl_sb.scenes[2].visual_path = "broken.mp4"
    /\ tl_out.scene_clips[2].kind = "animated"
    /\ tl_out.scene_clips[2].start = 6
    /\ tl_out.scene_clips[3].start = 6 + tl_out.clip_per_scene
    /\ tl_out.scene_clips[2].effects = <<[effect |-> "slide_left", duration |-> 2]>>
    /\ tl_out.scene_clips[3].effects = <<[effect |-> "CrossFadeIn", duration |-> 1]>>

(***************************************************************************)
(* Claims about the renderers' fallback (SpecDirector).                    *)
(***************************************************************************)
RendererRoutes == {"_generate_infographic", "_generate_motion", "_generate_text_animation"}

\* the latest pass called a renderer and the renderer raised or returned None
RendererFailed ==
    /\ dir_pc = "other_loop"
    /\ other_i >= 1
    /\ other_last.route \in RendererRoutes
    /\ other_last.render \in {"none", "raise"}

\* C25: when the renderer of an infographic, motion-graphic or text-animation
\* scene raises or returns None, the stock generator is called for that scene;
\* visual_clip stays None, and visual_path is the stock generator's result when
\* it returns one and stays None when it returns nothing.
C25_RendererFailureFallsBackToStock ==
    RendererFailed =>
        /\ other_last.stock \in {"path", "none"}
        /\ dir_scenes[other_i].visual_clip = ""
        /\ other_last.stock = "path" => dir_scenes[other_i].visual_path = "stock.mp4"
        /\ other_last.stock = "none" => dir_scenes[other_i].visual_path = ""
        /\ dir_scenes[other_i].visual_type \in Rendered

\* a motion graphic whose renderer raised and which got stock footage
C25_Witness ==
    /\ RendererFailed
    /\ other_last = [route |-> "_generate_motion", render |-> "raise", stock |-> "path"]
    /\ dir_scenes[other_i] = [visual_type |-> MOTION_GRAPHIC, visual_path |-> "stock.mp4",
                              visual_clip |-> ""]

(***************************************************************************)
(* Claims about batch_generate.main (SpecBatch).                           *)
(***************************************************************************)
BatchStatuses == {"success", "error", "timeout"}

\* C26: the batch loop runs the selected topics one at a time, one subprocess
\* per topic, and no outcome of a subprocess (non-zero exit, timeout,
\* exception) stops it: after every pass results holds one entry per topic
\* handled so far, in topic order, each with status success, error or timeout;
\* the summary is reached only after the last topic and its success and failed
\* counts add up to the number of selected topics.
C26_OneResultPerTopic ==
    /\ bat_pc \in {"loop", "done"} =>
          /\ Len(results) = bat_i
          /\ bat_spawned = bat_i
          /\ \A k \in 1..Len(results) :
                /\ results[k].topic = bat_topics[k]
                /\ results[k].status \in BatchStatuses
    /\ bat_pc = "done" =>
          /\ Len(results) = Len(bat_topics)
          /\ bat_summary.success + bat_summary.failed = Len(bat_topics)
          /\ bat_summary.success = SuccessCount(results)

\* three topics, the first times out, the second exits non-zero, the third
\* succeeds, and the summary has been printed
C26_Witness ==
    /\ bat_pc = "done"
    /\ Len(bat_topics) = 3
    /\ results[1].status = "timeout"
    /\ results[2].status = "error"
    /\ results[3].status = "success"
    /\ bat_summary = [success |-> 1, failed |-> 2]

(***************************************************************************)
(* Claims about the AI phases and their except handlers (SpecDirector).    *)
(***************************************************************************)
\* C27: a scene for which the generator of the AI image phase or of the AI
\* video phase returned a path keeps its AI visual_type together with that
\* path after the phase, whatever the phase met for the other scenes.
C27_GeneratedSceneKeepsAiType ==
    \A i \in 1..Len(dir_scenes) :
        /\ (dir_pc \notin {"idle", "audio", "images"} /\ img_outcome[i] = "path") =>
              /\ dir_scenes[i].visual_type = AI_GENERATED_IMAGE
              /\ dir_scenes[i].visual_path = "ai_image.png"
        /\ (dir_pc \notin {"idle", "audio", "images", "videos"} /\ vid_outcome[i] = "output") =>
              /\ dir_scenes[i].visual_type = AI_GENERATED_VIDEO
              /\ dir_scenes[i].visual_path = "ai_video.mp4"

(***************************************************************************)
(* Claims about Director.create_storyboard (SpecCreate).                   *)
(***************************************************************************)
\* the Claude path was taken and failed in one of the listed ways
ClaudeFailed ==
    /\ UsesClaude(cs_in)
    /\ \/ cs_in.claude.kind \in {"import_error", "api_error", "no_json", "invalid_json"}
       \/ cs_in.claude.kind = "object" /\ FromDictRaises(cs_in.claude)

\* C28: create_storyboard always returns a Storyboard, never raises; in claude
\* mode a missing anthropic package, an API error, a response without a JSON
\* object, invalid JSON, or a scene with a visual_type or transition_in outside
\* the enum each give a storyboard the template generator builds for the same
\* arguments.
C28_CreateAlwaysReturnsStoryboard ==
    cs_pc \in {"returned", "raised"} =>
        /\ cs_pc = "returned"
        /\ cs_out.from \in {"claude", "template"}
        /\ ClaudeFailed =>
              /\ cs_out.from = "template"
              /\ cs_out.sb \in TemplateStoryboards(cs_in.args)

(***************************************************************************)
(* Claims about the time allocation of the compositor (SpecTimeline).      *)
(***************************************************************************)
\* C29: for every total duration and every scene count >= 1 the hook
\* reservation, the scene slots and the cta reservation fit into the runtime,
\* 3.0 + n * per_scene + cta_time <= total_duration, and no scene slot ends
\* after the end of the video.  (clip_per_scene is n * per_scene.)
C29_AllocationFitsTotal ==
    (tl_pc = "built" /\ Len(tl_sb.scenes) >= 1) =>
        LET n == Len(tl_sb.scenes)
            cta_time == IF tl_sb.cta # <<>> THEN CtaTime ELSE 0
        IN  /\ HookTime + tl_out.clip_per_scene + cta_time <= tl_out.total_duration
            /\ \A i \in 1..n :
                  tl_out.scene_clips[i + 1].start + tl_out.clip_per_scene
                      <= tl_out.total_duration * n

(***************************************************************************)
(* Claims about the narration of the final video (SpecAudio).              *)
(***************************************************************************)
\* C30: whenever the audio phase has synthesized a narration file for a
\* storyboard, with zero, one or more scenes, build_video_from_storyboard opens
\* that file as the narration of the final video.
C30_NarrationAttached ==
    (aud_pc = "subtitled" /\ result.audio_path # "") =>
        vo_audio = result.audio_path

====
